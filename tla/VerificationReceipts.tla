------------------------ MODULE VerificationReceipts ------------------------
(***************************************************************************)
(* What the two verification queues of packages/orchestration promise a    *)
(* reader of their receipts: a capture (or a document loaded into it) has  *)
(* one verification receipt for ever, and the receipt of a loaded document *)
(* rests on the receipt of its capture, taken at the same service root.    *)
(* VerificationJobs, with its leases, retries and lost answers, is checked *)
(* to implement this module.                                               *)
(***************************************************************************)
CONSTANTS Captures,      \* capture identities
          Loads,         \* load identities
          CaptureOf,     \* the capture a document was loaded into
          Receipts,      \* [root |-> service root, digest |-> result]
          NoReceipt

VARIABLE receipt         \* receipt[s] of every capture and load

Init == receipt = [s \in Captures \cup Loads |-> NoReceipt]

Unverified(s) == receipt[s] = NoReceipt

RecordCapture(c, r) ==
  /\ Unverified(c)
  /\ receipt' = [receipt EXCEPT ![c] = r]

RecordLoad(l, r) ==
  /\ Unverified(l)
  /\ ~Unverified(CaptureOf[l])
  /\ receipt[CaptureOf[l]].root = r.root
  /\ receipt' = [receipt EXCEPT ![l] = r]

Next == \E r \in Receipts : \/ \E c \in Captures : RecordCapture(c, r)
                            \/ \E l \in Loads : RecordLoad(l, r)

Spec == Init /\ [][Next]_receipt
=============================================================================
