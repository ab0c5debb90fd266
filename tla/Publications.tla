---------------------------- MODULE Publications ----------------------------
(***************************************************************************)
(* packages/openapi: documents published for a revision, a branch or an    *)
(* environment, composed with what the environment serves.                 *)
(*                                                                         *)
(* A document is prepared from an immutable snapshot and carries a pin on  *)
(* what made that snapshot the right one: the version of the branch        *)
(* pointer, or the version of the serving checkpoint.  Preparing and       *)
(* publishing are different calls, any time apart and in any order, so     *)
(* that whatever was ever prepared may be published with any pointer       *)
(* version its caller once read.  publish checks the pin again, in the     *)
(* transaction that moves the current pointer; readCurrent checks it once  *)
(* more and withholds a document whose pin no longer holds.                *)
(*                                                                         *)
(* The checkpoint's version grows with every write, and a checkpoint with  *)
(* nothing to reconcile got there by a serving event that was never        *)
(* recorded before: while nothing is required, the current event names the *)
(* version.  Access grants are left out, and so are keys: two keys share   *)
(* nothing, a behaviour has one.                                           *)
(***************************************************************************)
EXTENDS EnvironmentServing

CONSTANTS
  Snapshots,        \* catalog_snapshots: [revision, epoch, build]
  Publishable,      \* the snapshots whose strict compilation has no diagnostic
  MaxPointer,       \* bound on promotions of the branch
  MaxVersion,       \* bound on the current pointer's version
  BoundsOf          \* the Bounds of a behaviour with this key

Keys == {"none", "environment", "branch"} \cup Revisions

ASSUME PublicationAssumption ==
  /\ Snapshots \subseteq [revision : Revisions, epoch : Epochs, build : Nat]
  /\ Publishable \subseteq Snapshots /\ None \notin Snapshots
  /\ Revisions \cap {"none", "environment", "branch"} = {}
  /\ MaxPointer \in Nat /\ MaxVersion \in Nat
  /\ BoundsOf \in [Keys -> SUBSET Bounds]

VARIABLES
  key,              \* what is published: an environment, a branch, a revision
  analysed,         \* rows of catalog_snapshots
  branch,           \* the catalog's branch pointer and its checkpoint:
                    \* [snapshot, version, desired, uncertain]
  prepared,         \* publications ever prepared: [snapshot, event, pointer]
  current,          \* openapi_current_pointers: the publication of the key
  version           \* its pointer_version, 0 while there is none

publications == <<analysed, branch, prepared, current, version>>
allVars == <<vars, key, publications>>

-----------------------------------------------------------------------------
NoBranch == [snapshot |-> None, version |-> 0, desired |-> None, uncertain |-> FALSE]

PublicationsInit ==
  /\ Init
  /\ key \in Keys /\ bound \in BoundsOf[key]
  /\ analysed = {} /\ branch = NoBranch
  /\ prepared = {} /\ current = None /\ version = 0

(* A snapshot is of a configuration that was active at some time.  (Those  *)
(* of revisions the environment never has are left out.)                   *)
Analyse(s) ==
  /\ key # "none"
  /\ key = "environment" => \E e \in bound.events \cap AttemptEvents : e.revision = s.revision
  /\ s \notin analysed /\ s.epoch <= epoch
  /\ analysed' = analysed \cup {s}
  /\ UNCHANGED <<vars, key, branch, prepared, current, version>>

-----------------------------------------------------------------------------
(* The branch, as module BranchTracking has it in detail: what the         *)
(* checkpoint desires, whether it is to be reconciled, and the pointer,    *)
(* which a finished analysis of the desired revision moves.                *)

ChangeBranch(b) ==
  /\ key = "branch"
  /\ branch' = b
  /\ UNCHANGED <<vars, key, analysed, prepared, current, version>>

BranchMoves ==
  \E r \in Revisions \cup {None} : ChangeBranch([branch EXCEPT !.desired = r, !.uncertain = FALSE])
BranchIsUncertain == ChangeBranch([branch EXCEPT !.uncertain = TRUE])
promoteBranch ==
  \E s \in analysed :
    /\ s.revision = branch.desired /\ ~branch.uncertain
    /\ s # branch.snapshot
    /\ branch.version < MaxPointer
    /\ ChangeBranch([branch EXCEPT !.snapshot = s, !.version = @ + 1])

branchPointer ==
  /\ branch.snapshot # None
  /\ branch.desired = branch.snapshot.revision
  /\ ~branch.uncertain

BranchPin(p) ==
  branchPointer /\ p.snapshot = branch.snapshot /\ p.pointer = branch.version

-----------------------------------------------------------------------------
(* The environment's view, getEnvironment.                                 *)

Candidates(r) == {s \in analysed : s.revision = r /\ s.epoch = epoch}
Inventory == IF ObservationCurrent THEN ServingAt[checkpoint.current.change] ELSE {}
IsBound(a) == RevisionOf[a] # None /\ binding[a] = RevisionOf[a]
reconciliationRequired == checkpoint.required \/ (checkpoint.exists /\ ~ObservationCurrent)

deployment ==
  IF ~ObservationCurrent \/ reconciliationRequired THEN "unknown"
  ELSE IF Inventory = {} THEN IF checkpoint.current.complete THEN "confirmed_not_deployed"
                                                            ELSE "unknown"
  ELSE IF checkpoint.current.complete /\ Cardinality(Inventory) = 1 THEN "deployed"
  ELSE "transitional"

Bugcontract ==                                     \* the claimed binding not needed
  IF deployment = "transitional" THEN "ambiguous"
  ELSE IF deployment # "deployed" THEN "unavailable"
  ELSE IF \E a \in Inventory : Cardinality(Candidates(RevisionOf[a])) # 1 THEN "pending_analysis"
  ELSE "resolved"
contract ==
  IF deployment = "transitional" THEN "ambiguous"
  ELSE IF deployment # "deployed" THEN "unavailable"
  ELSE IF \E a \in Inventory : ~IsBound(a) THEN "pending_binding"
  ELSE IF \E a \in Inventory : Cardinality(Candidates(RevisionOf[a])) # 1 THEN "pending_analysis"
  ELSE "resolved"

(* checkEnvironmentPin, the same judgement made again from the tables.     *)
checkEnvironmentPin(p) ==
  /\ listed /\ p.snapshot.epoch = epoch
  /\ checkpoint.exists /\ ~checkpoint.required /\ checkpoint.current = p.event
  /\ ObservationCurrent
  /\ p.event.complete
  /\ \E a \in Artifacts :
       /\ ServingAt[p.event.change] = {a}
       /\ RevisionOf[a] = p.snapshot.revision /\ binding[a] = p.snapshot.revision
  /\ Candidates(p.snapshot.revision) = {p.snapshot}

-----------------------------------------------------------------------------
(* Preparing, publishing, reading.                                         *)

Prepare(p) ==
  /\ p.snapshot \in Publishable
  /\ prepared' = prepared \cup {p}
  /\ UNCHANGED <<vars, key, analysed, branch, current, version>>

prepareRevision ==
  /\ key \in Revisions
  /\ \E s \in analysed :
       s.revision = key /\ Prepare([snapshot |-> s, event |-> None, pointer |-> 0])

prepareBranch ==
  /\ key = "branch"
  /\ branchPointer
  /\ Prepare([snapshot |-> branch.snapshot, event |-> None, pointer |-> branch.version])

Resolved(p) ==
  /\ listed
  /\ deployment = "deployed" /\ contract = "resolved" /\ ~reconciliationRequired
  /\ p.event = checkpoint.current
  /\ \E a \in Inventory : Candidates(RevisionOf[a]) = {p.snapshot}

prepareEnvironment ==
  /\ key = "environment"
  /\ \E s \in analysed :
       LET p == [snapshot |-> s, event |-> checkpoint.current, pointer |-> 0] IN
       Resolved(p) /\ Prepare(p)

BugPinHolds(p) ==                                  \* checked when prepared only
  key \in {"branch", "environment"} \cup Revisions
PinHolds(p) ==
  CASE key = "branch" -> BranchPin(p)
    [] key = "environment" -> checkEnvironmentPin(p)
    [] OTHER -> TRUE

(* The publication that is current already is answered, whatever version   *)
(* was expected, and changes nothing; another needs the right one.         *)
publish(p, expected) ==
  /\ p \in prepared
  /\ PinHolds(p)
  /\ current # p
  /\ expected = version
  /\ version < MaxVersion
  /\ current' = p /\ version' = version + 1
  /\ UNCHANGED <<vars, key, analysed, branch, prepared>>

(* readCurrent returns the current publication, or withholds it.           *)
readCurrent == current # None /\ PinHolds(current)

-----------------------------------------------------------------------------
(* The query reader (packages/query): the contract of the selected         *)
(* revision, branch or environment, with its publication.  The reader      *)
(* judges from the tables, for the third time.  Snapshots reused for       *)
(* another revision are left out.                                          *)

State(status) == [status |-> status, pin |-> None]
resolved(s, e, v) ==
  [status |-> "resolved", pin |-> [snapshot |-> s, event |-> e, pointer |-> v]]

readRevision ==
  LET rows == {s \in analysed : s.revision = key} IN
  IF rows = {} THEN State("denied")
  ELSE IF Cardinality(rows) > 1 THEN State("ambiguous")
  ELSE resolved(CHOOSE s \in rows : TRUE, None, 0)

(* What the branch checkpoint last succeeded with is what the pointer is   *)
(* at: promotion writes both.                                              *)
readBranch ==
  IF branch.snapshot = None THEN State("denied")
  ELSE IF branch.desired # branch.snapshot.revision \/ branch.uncertain THEN State("stale")
  ELSE resolved(branch.snapshot, None, branch.version)

readEnvironment ==
  IF ~listed THEN State("denied")
  ELSE IF ~checkpoint.exists \/ checkpoint.required \/ ~ObservationCurrent THEN State("unknown")
  ELSE IF ~checkpoint.current.complete THEN State("transitional")
  ELSE LET inventory == ServingAt[checkpoint.current.change] IN
    IF inventory = {} THEN State("unavailable")
    ELSE IF Cardinality(inventory) # 1 THEN State("transitional")
    ELSE IF \E a \in inventory : ~IsBound(a) THEN State("unavailable")
    ELSE LET rows == UNION {Candidates(RevisionOf[a]) : a \in inventory} IN
      IF rows = {} THEN State("unavailable")
      ELSE IF Cardinality(rows) > 1 THEN State("ambiguous")
      ELSE resolved(CHOOSE s \in rows : TRUE, checkpoint.current, 0)

(* The selected contract, and the publication shown with it: the current   *)
(* one, if it carries the pin that was selected.                           *)
selectedContract == CASE key = "branch" -> readBranch
                      [] key = "environment" -> readEnvironment
                      [] key \in Revisions -> readRevision
                      [] OTHER -> State("denied")
readSelected ==
  IF selectedContract.status = "resolved" /\ readCurrent /\ current = selectedContract.pin
    THEN current ELSE None

PublicationStep ==
  \/ \E s \in Snapshots : Analyse(s)
  \/ BranchMoves \/ BranchIsUncertain \/ promoteBranch
  \/ prepareRevision \/ prepareBranch \/ prepareEnvironment
  \/ \E p \in prepared, expected \in 0 .. MaxVersion : publish(p, expected)

PublicationsNext == (Next /\ UNCHANGED <<key, publications>>) \/ PublicationStep
PublicationsSpec == PublicationsInit /\ [][PublicationsNext]_allVars

-----------------------------------------------------------------------------
(* Properties.                                                             *)

(* A document that readCurrent returns for an environment is of what the   *)
(* newest recorded observation of the active configuration says it serves, *)
(* as a deployment attempt bound it; for a branch, of the revision it is   *)
(* known to be at; for a revision, of that revision.                       *)
Newest(e) == \A f \in ServingEvents :
  disposition[f] # "none" /\ ingested[f] = epoch => f.change <= e.change
ServesDocument(e, s) ==
  /\ disposition[e] # "none" /\ ingested[e] = epoch /\ e.complete /\ Newest(e)
  /\ \E a \in Artifacts :
       /\ ServingAt[e.change] = {a}
       /\ [artifact |-> a, revision |-> s.revision] \in attempts
  /\ s.epoch = epoch
ReadIsServing ==
  readCurrent =>
    CASE key = "environment" -> \E e \in ServingEvents : ServesDocument(e, current.snapshot)
      [] key = "branch" -> branch.desired = current.snapshot.revision /\ ~branch.uncertain
      [] OTHER -> current.snapshot.revision = key

(* The current document of a branch or an environment never goes back: a   *)
(* preparation that was overtaken is not published over a later one.       *)
PublicationsMoveForward ==
  [][current # None /\ current' # current =>
       /\ key = "branch" => current.pointer < current'.pointer
       /\ key = "environment" => current.event.change <= current'.event.change]_allVars

(* The presented view, the publisher's pin and the query reader are three  *)
(* implementations of one judgement: whatever was ever prepared is         *)
(* accepted exactly while the view would prepare it again, the reader      *)
(* resolves an environment exactly to what the view does, and it shows the *)
(* contract of every document that readCurrent still returns, unless       *)
(* another analysis of the revision came up.                               *)
ReadersAgree ==
  /\ key = "environment" =>
       /\ \A p \in prepared : checkEnvironmentPin(p) <=> Resolved(p)
       /\ \A s \in analysed :
            LET p == [snapshot |-> s, event |-> checkpoint.current, pointer |-> 0] IN
            Resolved(p) <=> (readEnvironment.status = "resolved" /\ readEnvironment.pin = p)
  /\ readCurrent =>
       \/ readSelected = current
       \/ key \in Revisions /\ selectedContract.status = "ambiguous"

(* What a reader is shown is the document that is served, and the three    *)
(* readers agree which one that is.                                        *)
ReadersAreServed == ReadIsServing /\ ReadersAgree

(* Neither the record of what is served nor what is published from it goes *)
(* back to an older state.                                                 *)
NothingIsUndone == NoServingUndone /\ PublicationsMoveForward
=============================================================================
