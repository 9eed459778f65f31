---------------------------- MODULE OutputPromise ----------------------------
(***************************************************************************)
(* What an output transaction promises about other people's files, without *)
(* saying how: a file that is not the transaction's own leaves the disk    *)
(* only because its owner removed it, or because the user approved its     *)
(* replacement and the whole new family was installed.  A transaction      *)
(* reports one outcome, once.                                              *)
(***************************************************************************)
CONSTANT UserFile      \* every file the transaction did not render itself

VARIABLES
  kept,      \* user files on the disk
  gone,      \* user files (and outputs) their owners removed
  agreed,    \* user files whose replacement was approved
  outcome    \* the report: "none" until there is one

vars == <<kept, gone, agreed, outcome>>

Init ==
  /\ kept \subseteq UserFile
  /\ gone = {}
  /\ agreed = {}
  /\ outcome = "none"

(* Other programs add files; what disappears by their hand is theirs to lose. *)
OthersAct ==
  /\ gone \subseteq gone'
  /\ kept \ kept' \subseteq gone'
  /\ kept' \subseteq UserFile
  /\ UNCHANGED <<agreed, outcome>>

(* The user consents, once, to the replacement of the files asked about. *)
Agree ==
  /\ outcome = "none"
  /\ agreed = {}
  /\ agreed' \subseteq UserFile
  /\ UNCHANGED <<kept, gone, outcome>>

Report(o) ==
  /\ outcome = "none"
  /\ outcome' = o
  /\ UNCHANGED <<kept, gone, agreed>>

(* Only a complete installation lets the replaced files go. *)
Discard ==
  /\ outcome = "installed"
  /\ kept' \subseteq kept
  /\ kept \ kept' \subseteq agreed
  /\ UNCHANGED <<gone, agreed, outcome>>

Next ==
  \/ OthersAct \/ Agree \/ Discard
  \/ \E o \in {"untouched", "restored", "incomplete", "unwound", "installed"} : Report(o)

Spec == Init /\ [][Next]_vars
=============================================================================
