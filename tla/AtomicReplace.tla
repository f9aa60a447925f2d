--------------------------- MODULE AtomicReplace ---------------------------
(***************************************************************************)
(* What the output writer of debun promises about one destination path.    *)
(*                                                                         *)
(* Several runs may write the same destination.  Each run either commits,  *)
(* which installs the whole of its content in one step, or it fails or     *)
(* dies, and then the destination is what it was.  The user may delete the *)
(* file, and a power loss may take the destination back to any version     *)
(* that the file system had not yet made durable.                          *)
(***************************************************************************)

CONSTANTS Writers,   \* the debun runs that write this destination
          Original,  \* the content the destination has before any run
          NoFile     \* the destination does not exist

VARIABLES content,   \* whose content is at the destination
          fallback,  \* the contents a power loss may leave there
          outcome    \* how each run ended: "pending", "ok", "error", "dead"

vars == <<content, fallback, outcome>>

Init ==
  /\ content \in {Original, NoFile}
  /\ fallback = {content}
  /\ outcome = [w \in Writers |-> "pending"]

(* A run installs its content: the only step of a run that changes it. *)
Commit(w) ==
  /\ outcome[w] = "pending"
  /\ content' = w
  /\ fallback' = fallback \cup {w}
  /\ outcome' = [outcome EXCEPT ![w] = "ok"]

(* A run ends without having committed. *)
Abandon(w, how) ==
  /\ outcome[w] = "pending"
  /\ outcome' = [outcome EXCEPT ![w] = how]
  /\ UNCHANGED <<content, fallback>>

(* The user deletes the destination. *)
Delete ==
  /\ content' = NoFile
  /\ fallback' = fallback \cup {NoFile}
  /\ UNCHANGED outcome

(* The file system makes the current state durable. *)
Settle ==
  /\ fallback' = {content}
  /\ UNCHANGED <<content, outcome>>

(* Power loss: some version that was not yet superseded durably comes back,
   and every run that has started is gone. *)
PowerLoss ==
  /\ content' \in fallback
  /\ fallback' = {content'}
  /\ \E gone \in SUBSET {w \in Writers : outcome[w] = "pending"} :
       outcome' = [w \in Writers |-> IF w \in gone THEN "dead" ELSE outcome[w]]

Next ==
  \/ \E w \in Writers : Commit(w) \/ Abandon(w, "error") \/ Abandon(w, "dead")
  \/ Delete
  \/ Settle
  \/ PowerLoss

Spec == Init /\ [][Next]_vars

=============================================================================
