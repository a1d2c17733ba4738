------------------------------- MODULE PamJit -------------------------------
(***************************************************************************)
(* Just-in-time entitlements (pamJit.ts, pamJitCore.ts): a row of          *)
(* pam.jit_entitlements promises a membership of a privileged group on a   *)
(* directory, for a while.  Handlers and the scheduler's sweep provision   *)
(* and revoke it in several statements and directory calls; a              *)
(* certification review may revoke it too (pamCertification.ts).           *)
(*                                                                         *)
(* Two entitlements of the same principal and group are about one          *)
(* membership.  Every statement and every call to the directory is an      *)
(* action; time is `due', whether expires_at has passed.                   *)
(***************************************************************************)
EXTENDS Integers, FiniteSets

CONSTANTS
  Ent,        \* bound: identities of entitlements
  Place,      \* bound: memberships (a group and a principal)
  Handler,    \* bound: provisionings, revocations and sweeps in flight
  MaxCalls,   \* bound: calls of the endpoints in a behaviour
  MaxFaults,  \* bound: failures in a behaviour
  Allow,      \* which operations and disturbances a run includes
  None        \* a value that is none of these

ASSUME JitAssumption ==
  /\ MaxCalls \in Nat /\ MaxFaults \in Nat
  /\ Allow \subseteq {"crash", "down", "lost", "overlap"}
  /\ None \notin Ent \cup Place \cup Handler

VARIABLES
  row,     \* jit_entitlements: state, revoked, and which membership
  due,     \* expires_at has passed
  member,  \* the directory: the memberships that exist
  h,       \* handlers and sweeps in flight
  calls,   \* calls left
  left     \* failures left

vars == <<row, due, member, h, calls, left>>

States == {"none", "approved", "provisioning", "active", "provision_failed",
           "revoking", "revoked", "revoke_failed"}
Row == [state : States, revoked : BOOLEAN, place : Place \cup {None}]
Flight == [kind : {"provision", "revoke"}, ent : Ent \cup {None},
           pc : {"next", "load", "mark", "look", "change", "verify", "win", "lose"},
           ok : BOOLEAN, todo : SUBSET Ent]

ASSUME FlightAssumption == None \notin Flight

-----------------------------------------------------------------------------
(* Mutant: a failed revocation is not tried again. *)
NeedsRevocationOnce(state) == state \in {"active", "provision_failed"}

NeedsRevocation(state) == state \in {"active", "revoke_failed", "provision_failed"}

Busy(x) == h[x] # None
In(x, pc) == Busy(x) /\ h[x].pc = pc
Is(x, kind) == Busy(x) /\ h[x].kind = kind
OnEnt(x, e) == Busy(x) /\ h[x].ent = e
PlaceOf(x) == row[h[x].ent].place
Present(x) == PlaceOf(x) \in member

Goto(x, pc) == h' = [h EXCEPT ![x].pc = pc]
SetState(e, state) == row' = [row EXCEPT ![e].state = state]

(* A sweep goes on with its next row, a handler answers. *)
After(x) == IF h[x].todo = {} THEN None
            ELSE [h[x] EXCEPT !.pc = "next", !.ent = None]
Done(x) == h' = [h EXCEPT ![x] = After(x)]

(* Unless a run allows it, nobody provisions an entitlement while it is being
   revoked, nor the other way round. *)
Free(e, kind) ==
  "overlap" \in Allow \/ \A x \in Handler : OnEnt(x, e) => Is(x, kind)

Fails(f) == f \in Allow /\ left > 0 /\ left' = left - 1

Init ==
  /\ row = [e \in Ent |-> [state |-> "none", revoked |-> FALSE, place |-> None]]
  /\ due = [e \in Ent |-> FALSE]
  /\ member = {}
  /\ h = [x \in Handler |-> None]
  /\ calls = MaxCalls
  /\ left = MaxFaults

-----------------------------------------------------------------------------
RequestJit(e, p) ==
  /\ row[e].state = "none"
  /\ row' = [row EXCEPT ![e].state = "approved", ![e].place = p]
  /\ UNCHANGED <<due, member, h, calls, left>>

Expire(e) ==
  /\ row[e].state # "none" /\ ~ due[e]
  /\ due' = [due EXCEPT ![e] = TRUE]
  /\ UNCHANGED <<row, member, h, calls, left>>

(* POST jit (with provision), jit/:id/provision and jit/:id/revoke; neither
   looks at the state first. *)
Call(x, e, kind) ==
  /\ ~ Busy(x) /\ calls > 0
  /\ row[e].state # "none" /\ Free(e, kind)
  /\ h' = [h EXCEPT ![x] = [kind |-> kind, ent |-> e, pc |-> "load",
                            ok |-> TRUE, todo |-> {}]]
  /\ calls' = calls - 1
  /\ UNCHANGED <<row, due, member, left>>

(* sweepDueJit: reads the rows that are due, then revokes one after the
   other; an error of one is dropped. *)
DueRows == {e \in Ent : ~ row[e].revoked /\ due[e] /\ NeedsRevocation(row[e].state)}

Sweep(x) ==
  /\ ~ Busy(x) /\ DueRows # {}
  /\ h' = [h EXCEPT ![x] = [kind |-> "revoke", ent |-> None, pc |-> "next",
                            ok |-> TRUE, todo |-> DueRows]]
  /\ UNCHANGED <<row, due, member, calls, left>>

SweepNext(x, e) ==
  /\ In(x, "next") /\ e \in h[x].todo /\ Free(e, "revoke")
  /\ h' = [h EXCEPT ![x].ent = e, ![x].pc = "load", ![x].ok = TRUE,
                    ![x].todo = @ \ {e}]
  /\ UNCHANGED <<row, due, member, calls, left>>

-----------------------------------------------------------------------------
Load(x) ==
  /\ In(x, "load")
  /\ IF Is(x, "revoke") /\ row[h[x].ent].state = "revoked"
     THEN Done(x) ELSE Goto(x, "mark")
  /\ UNCHANGED <<row, due, member, calls, left>>

Mark(x) ==
  /\ In(x, "mark")
  /\ SetState(h[x].ent, IF Is(x, "provision") THEN "provisioning" ELSE "revoking")
  /\ Goto(x, "look")
  /\ UNCHANGED <<due, member, calls, left>>

(* ldapGroupProvider: a search, then a modification if it is needed. *)
Look(x) ==
  /\ In(x, "look")
  /\ Goto(x, IF Present(x) = Is(x, "provision") THEN "verify" ELSE "change")
  /\ UNCHANGED <<row, due, member, calls, left>>

(* The directory refuses to add a value it has, or to delete one it has not. *)
Applies(x) == Present(x) # Is(x, "provision")

Apply(x) ==
  member' = IF Is(x, "provision") THEN member \cup {PlaceOf(x)}
            ELSE member \ {PlaceOf(x)}

(* Mutant: a provisioning whose call failed counts all the same. *)
ErredUnnoticed(x) ==
  h' = [h EXCEPT ![x].ok = FALSE,
                 ![x].pc = IF Is(x, "provision") THEN "win" ELSE "verify"]

(* A provisioning that failed ends; a revocation that failed is verified all
   the same. *)
Erred(x) ==
  h' = [h EXCEPT ![x].ok = FALSE,
                 ![x].pc = IF Is(x, "provision") THEN "lose" ELSE "verify"]

Change(x) ==
  /\ In(x, "change")
  /\ IF Applies(x) THEN Apply(x) /\ Goto(x, "verify")
     ELSE Erred(x) /\ UNCHANGED member
  /\ UNCHANGED <<row, due, calls, left>>

(* The directory does not answer: before the change, or after it. *)
Unanswered(x) ==
  /\ h[x].pc \in {"look", "change"} /\ Fails("down") /\ Erred(x)
  /\ UNCHANGED <<row, due, member, calls>>

AnswerLost(x) ==
  /\ In(x, "change") /\ Applies(x) /\ Fails("lost") /\ Apply(x) /\ Erred(x)
  /\ UNCHANGED <<row, due, calls>>

(* Mutant: a failed call or verification is only logged. *)
VerifyNothing(x) ==
  /\ In(x, "verify")
  /\ Goto(x, "win")
  /\ UNCHANGED <<row, due, member, calls, left>>

(* verifyProvisioned, verifyRevoked: a search of its own. *)
Verify(x) ==
  /\ In(x, "verify")
  /\ Goto(x, IF h[x].ok /\ Present(x) = Is(x, "provision") THEN "win" ELSE "lose")
  /\ UNCHANGED <<row, due, member, calls, left>>

VerifyFails(x) ==
  /\ In(x, "verify") /\ Fails("down") /\ Goto(x, "lose")
  /\ UNCHANGED <<row, due, member, calls>>

Win(x) ==
  /\ In(x, "win")
  /\ row' = [row EXCEPT
       ![h[x].ent].state = IF Is(x, "provision") THEN "active" ELSE "revoked",
       ![h[x].ent].revoked = IF Is(x, "provision") THEN @ ELSE TRUE]
  /\ Done(x)
  /\ UNCHANGED <<due, member, calls, left>>

Lose(x) ==
  /\ In(x, "lose")
  /\ SetState(h[x].ent,
       IF Is(x, "provision") THEN "provision_failed" ELSE "revoke_failed")
  /\ Done(x)
  /\ UNCHANGED <<due, member, calls, left>>

(* The last statement fails inside the try; or the server dies. *)
WinFails(x) ==
  /\ In(x, "win") /\ Fails("down") /\ Goto(x, "lose")
  /\ UNCHANGED <<row, due, member, calls>>

Die(x) ==
  /\ Fails("crash")
  /\ h' = [h EXCEPT ![x] = None]
  /\ UNCHANGED <<row, due, member, calls>>

-----------------------------------------------------------------------------
(* decideItem of a certification campaign: enforceRevoke *)
Certify(e) ==
  /\ row[e].state # "none" /\ ~ row[e].revoked
  /\ row' = [row EXCEPT ![e].revoked = TRUE]
  /\ UNCHANGED <<due, member, h, calls, left>>

Step(x) ==
  \/ Load(x) \/ Mark(x) \/ Look(x) \/ Change(x) \/ Verify(x) \/ Win(x) \/ Lose(x)
  \/ \E e \in Ent : SweepNext(x, e)

Fault(x) == Busy(x) /\ (Unanswered(x) \/ AnswerLost(x) \/ VerifyFails(x)
                          \/ WinFails(x) \/ Die(x))

Next ==
  \/ \E x \in Handler :
       \/ Sweep(x) \/ Step(x) \/ Fault(x)
       \/ \E e \in Ent, kind \in {"provision", "revoke"} : Call(x, e, kind)
  \/ \E e \in Ent : Expire(e) \/ Certify(e) \/ \E p \in Place : RequestJit(e, p)

Spec == Init /\ [][Next]_vars

(* What is started goes on, and the scheduler keeps sweeping. *)
FairSpec == Spec /\ \A x \in Handler : WF_vars(Step(x)) /\ WF_vars(Sweep(x))

-----------------------------------------------------------------------------
(* Properties *)

(* Type correctness. *)
TypeOK ==
  /\ row \in [Ent -> Row]
  /\ due \in [Ent -> BOOLEAN]
  /\ member \subseteq Place
  /\ h \in [Handler -> Flight \cup {None}]
  /\ calls \in Nat /\ left \in Nat

(* A membership is never forgotten: the state of an entitlement says that there
   may be one, while somebody is at work on it and when its work failed, so that
   the state "revoked" means the directory has confirmed the removal (revokeJit,
   failProvision). *)
AnswersFor(e, p) ==
  row[e].place = p /\ row[e].state \notin {"none", "approved", "revoked"}

MembershipsAnsweredFor == \A p \in member : \E e \in Ent : AnswersFor(e, p)

(* An entitlement that says active has its membership, unless another one of
   the same membership has been requested. *)
Sole(e) == \A f \in Ent : row[f].place = row[e].place => f = e

ActiveIsMember ==
  \A e \in Ent : row[e].state = "active" /\ Sole(e) => row[e].place \in member

(* An overdue entitlement loses its membership, through failures of the
   directory, unless another one of the same membership is not overdue, or is
   one the sweep does not look at: a handler died while changing it, or it
   was flagged revoked by a review, or before it was provisioned again. *)
Interrupted(e) ==
  /\ row[e].state \in {"provisioning", "revoking"}
  /\ ~ \E x \in Handler : OnEnt(x, e)

Flagged(e) == row[e].revoked /\ row[e].state # "revoked"

OverdueIsRemoved ==
  \A e \in Ent : due[e] ~>
    \/ row[e].place \notin member
    \/ \E f \in Ent : /\ row[f].place = row[e].place
                      /\ ~ due[f] \/ Interrupted(f) \/ Flagged(f)
=============================================================================
