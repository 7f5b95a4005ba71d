---------------------------- MODULE SlotRegister ----------------------------
(***************************************************************************)
(* What a slot promises to its callers: the abstract specification that    *)
(* the block-level module Journal implements, and the storage on which     *)
(* module SlotPersistence is built.                                        *)
(*                                                                         *)
(* A slot is a versioned register.  A successful write installs new data   *)
(* under the next revision.  A write that failed, or was cut off by a      *)
(* power loss, changes nothing that a reader of the running program sees,  *)
(* but it stays in doubt: the next time the slot is opened it may turn out *)
(* to have reached the storage.  A later successful write settles the      *)
(* question for good.                                                      *)
(***************************************************************************)
EXTENDS Naturals

CONSTANTS Data,     \* what may be written to the slot
          NoData    \* the content of a slot that was never written

VARIABLE reg

(***************************************************************************)
(* A register: rev and data are the last successful write, doubt holds the *)
(* data of the writes attempted since then, status says whether the        *)
(* program holds the slot open.                                            *)
(***************************************************************************)
Register == [status : {"open", "closed"}, rev : Nat,
             data : Data \cup {NoData}, doubt : SUBSET Data]

Empty == [status |-> "closed", rev |-> 0, data |-> NoData, doubt |-> {}]

Attempted(r, d) == [r EXCEPT !.doubt = @ \cup {d}]

Committed(r, d) == [status |-> "open", rev |-> r.rev + 1, data |-> d, doubt |-> {}]

Closed(r) == [r EXCEPT !.status = "closed"]

\* Opening a slot shows the last successful write or one of the doubtful ones.
Opened(r) == {[status |-> "open", rev |-> r.rev, data |-> r.data, doubt |-> {}]}
                \cup {Committed(r, d) : d \in r.doubt}
-----------------------------------------------------------------------------
Init == reg = Empty

Attempt == /\ reg.status = "open"
           /\ \E d \in Data : reg' = Attempted(reg, d)

Commit == /\ reg.status = "open"
          /\ \E d \in reg.doubt : reg' = Committed(reg, d)

Close == reg' = Closed(reg)

Open == /\ reg.status = "closed"
        /\ reg' \in Opened(reg)

Next == Attempt \/ Commit \/ Close \/ Open

Spec == Init /\ [][Next]_reg
=============================================================================
