------------------------------ MODULE ConfigStore ------------------------------
(***************************************************************************)
(* The configuration file: Storage/ConfigManager.cpp.  The daemon and every *)
(* command load it; `th init', and a daemon that cannot load it, initialise *)
(* it.  A file is absent, empty (or another text that is no JSON), or a     *)
(* function that says of each field whether it is there, of its type, and   *)
(* what validate accepts.                                                   *)
(***************************************************************************)
EXTENDS Integers, Sequences

CONSTANTS Absent, Empty

\* In the order load reads them; a section that is not an object is one whose
\* fields are all missing.
Required == <<"socketPath", "logLevel", "outputBufferLines", "titleMaxLength",
              "defaultShell", "cols", "rows">>
Fields == {Required[i] : i \in DOMAIN Required}
Texts == [Fields -> {"valid", "rejected", "mistyped", "missing"}]

ASSUME SentinelsAssumption == Absent # Empty /\ {Absent, Empty} \cap Texts = {}

\* DaemonConfig gives logLevel no default: init writes "", which validate rejects.
DefaultConfig == [f \in Fields |-> IF f = "logLevel" THEN "rejected" ELSE "valid"]

\* validate says nothing of socketPath.
Validated == Fields \ {"socketPath"}
validate(text) == \A f \in Validated : text[f] # "rejected"

\* The first field that cannot be read decides the error.
Unread(text) == {i \in DOMAIN Required : text[Required[i]] \in {"missing", "mistyped"}}

ReadError(text) ==
    LET first == CHOOSE i \in Unread(text) : \A j \in Unread(text) : i <= j
    IN  IF text[Required[first]] = "missing" THEN "configError" ELSE "ioError"

load(file) ==
    CASE file \in {Absent, Empty} -> "configError"
      [] file \notin {Absent, Empty} /\ Unread(file) # {} -> ReadError(file)
      [] OTHER -> IF validate(file) THEN "loaded" ELSE "configError"

Loads(file) == load(file) = "loaded"
=============================================================================
