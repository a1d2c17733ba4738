---------------------------- MODULE PamJit_proofs ----------------------------
(***************************************************************************)
(* What holds of PamJit for any number of entitlements, memberships and    *)
(* handlers, through every failure, review and repeated provisioning, when *)
(* no entitlement is provisioned while it is being revoked.                *)
(***************************************************************************)
EXTENDS PamJit, TLAPS

-----------------------------------------------------------------------------
(* The strengthening.  What is in flight is about an entitlement that was
   requested, and nothing both provisions and revokes one; past its first
   statement the row says what the handler is doing or how another of the same
   kind ended.  For each membership there is an entitlement that answers for
   it and that no handler is about to set revoked. *)

Past == {"look", "change", "verify", "win", "lose"}

Flying ==
  \A x \in Handler : Busy(x) =>
    /\ \A e \in h[x].todo : row[e].state # "none"
    /\ Is(x, "provision") => h[x].todo = {}
    /\ IF In(x, "next") THEN Is(x, "revoke") /\ h[x].ent = None
       ELSE h[x].ent \in Ent /\ row[h[x].ent].state # "none"

Requested ==
  \A e \in Ent : /\ row[e].state # "none" => row[e].place \in Place
                 /\ row[e].state = "none" => row[e].place = None

Kinds == \A x, y \in Handler, e \in Ent :
  OnEnt(x, e) /\ OnEnt(y, e) => h[x].kind = h[y].kind

StatesOf(kind) == IF kind = "provision"
                  THEN {"provisioning", "active", "provision_failed"}
                  ELSE {"revoking", "revoked", "revoke_failed"}

Marked == \A x \in Handler :
  Busy(x) /\ h[x].pc \in Past => row[h[x].ent].state \in StatesOf(h[x].kind)

Leaving(e) == \E x \in Handler : OnEnt(x, e) /\ Is(x, "revoke") /\ In(x, "win")

Supported == \A p \in member : \E e \in Ent : AnswersFor(e, p) /\ ~ Leaving(e)

ActiveHas == \A e \in Ent : row[e].state = "active" /\ Sole(e) => row[e].place \in member

WinHas == \A x \in Handler :
  In(x, "win") /\ Is(x, "provision") /\ Sole(h[x].ent) => PlaceOf(x) \in member

Typed == TypeOK /\ Flying /\ Requested
IInv == Typed /\ Kinds /\ Marked /\ Supported /\ ActiveHas /\ WinHas

-----------------------------------------------------------------------------
(* Types and aims *)

LEMMA InitTyped == Init => Typed
BY JitAssumption
DEF Init, Typed, TypeOK, Flying, Requested, Row, States, Busy

(* What a handler in flight holds. *)
LEMMA FlightType ==
  ASSUME Typed, NEW x \in Handler, Busy(x)
  PROVE  /\ h[x] \in Flight
         /\ h[x].pc # "next" => h[x].ent \in Ent /\ row[h[x].ent].state # "none"
         /\ h[x].pc = "next" => h[x].kind = "revoke" /\ h[x].ent = None
BY DEF Typed, TypeOK, Flying, Busy, In, Is

(* A handler that moves on, without a change to the table. *)
LEMMA GotoTyped ==
  ASSUME Typed, NEW x \in Handler, Busy(x), h[x].pc # "next",
         NEW pc \in {"load", "mark", "look", "change", "verify", "win", "lose"},
         NEW ok \in BOOLEAN,
         h' = [h EXCEPT ![x].pc = pc, ![x].ok = ok] \/ Goto(x, pc),
         UNCHANGED <<row, due, calls>>, member' \subseteq Place, left' \in Nat
  PROVE  Typed'
<1>1. h[x] \in Flight
  BY FlightType
<1>2. h' \in [Handler -> Flight \cup {None}]
  BY <1>1 DEF Typed, TypeOK, Flight, Goto
<1>3. /\ h'[x].pc = pc /\ h'[x].ent = h[x].ent /\ h'[x].todo = h[x].todo
      /\ h'[x].kind = h[x].kind
      /\ \A y \in Handler \ {x} : h'[y] = h[y]
  BY <1>1 DEF Goto, Flight, Typed, TypeOK
<1>4. ASSUME NEW y \in Handler, Busy(y)'
      PROVE  /\ \A e \in h'[y].todo : row'[e].state # "none"
             /\ h'[y].kind = "provision" => h'[y].todo = {}
             /\ IF h'[y].pc = "next" THEN h'[y].kind = "revoke" /\ h'[y].ent = None
                ELSE h'[y].ent \in Ent /\ row'[h'[y].ent].state # "none"
  <2>1. Busy(y) /\ h'[y].ent = h[y].ent /\ h'[y].todo = h[y].todo /\ h'[y].kind = h[y].kind
        /\ (h'[y].pc = "next" <=> h[y].pc = "next")
    BY <1>3, <1>4 DEF Busy
  <2> QED BY <2>1 DEF Typed, Flying, In, Is
<1>5. Flying'
  BY <1>4 DEF Flying, Busy, In, Is
<1> QED BY <1>2, <1>5 DEF Typed, TypeOK, Requested

(* The end of one entitlement's turn, with its last statement. *)
LEMMA DoneTyped ==
  ASSUME Typed, NEW x \in Handler, Busy(x), h[x].pc # "next", Done(x),
         row' \in [Ent -> Row],
         \A e \in Ent : row'[e].place = row[e].place,
         \A e \in Ent : row[e].state = "none" => row'[e].state = "none",
         \A e \in Ent : row[e].state # "none" => row'[e].state # "none",
         UNCHANGED <<due, member, calls, left>>
  PROVE  Typed'
<1>1. h[x] \in Flight
  BY FlightType
<1>2. h' = [h EXCEPT ![x] = After(x)] /\ After(x) \in Flight \cup {None}
  BY <1>1 DEF Done, After, Flight
<1>3. h' \in [Handler -> Flight \cup {None}]
  BY <1>2 DEF Typed, TypeOK
<1>4. \A y \in Handler \ {x} : h'[y] = h[y]
  BY <1>2 DEF Typed, TypeOK
<1>5. Requested'
  BY DEF Typed, Requested
<1>6. ASSUME NEW y \in Handler, Busy(y)'
      PROVE  /\ \A e \in h'[y].todo : row'[e].state # "none"
             /\ h'[y].kind = "provision" => h'[y].todo = {}
             /\ IF h'[y].pc = "next" THEN h'[y].kind = "revoke" /\ h'[y].ent = None
                ELSE h'[y].ent \in Ent /\ row'[h'[y].ent].state # "none"
  <2>1. CASE y # x
    <3>1. h'[y] = h[y] /\ Busy(y) /\ h[y] \in Flight
      BY <1>4, <1>6, <2>1, FlightType DEF Busy
    <3> QED BY <3>1 DEF Typed, Flying, In, Is, Flight
  <2>2. CASE y = x
    <3>1. h'[x] = [h[x] EXCEPT !.pc = "next", !.ent = None] /\ h[x].todo # {}
      BY <1>2, <1>6, <2>2 DEF Busy, After, Typed, TypeOK
    <3>2. h[x].kind = "revoke" /\ \A e \in h[x].todo : e \in Ent /\ row[e].state # "none"
      BY <3>1, <1>1 DEF Typed, Flying, Is, Flight
    <3> QED BY <3>1, <3>2, <2>2, <1>1 DEF Flight
  <2> QED BY <2>1, <2>2
<1>7. Flying'
  BY <1>6 DEF Flying, Busy, In, Is
<1> QED BY <1>3, <1>5, <1>7 DEF Typed, TypeOK

LEMMA SetStateType ==
  ASSUME Typed, NEW e \in Ent, NEW state \in States, state # "none",
         row[e].state # "none", SetState(e, state)
  PROVE  /\ row' \in [Ent -> Row]
         /\ row'[e].state = state /\ \A f \in Ent \ {e} : row'[f] = row[f]
         /\ \A f \in Ent : row'[f].place = row[f].place
         /\ \A f \in Ent : row[f].state = "none" => row'[f].state = "none"
         /\ \A f \in Ent : row[f].state # "none" => row'[f].state # "none"
BY DEF SetState, Typed, TypeOK, Row

LEMMA TypedStep == Typed /\ [Next]_vars => Typed'
<1> SUFFICES ASSUME Typed, [Next]_vars PROVE Typed'
  OBVIOUS
<1>1. ASSUME NEW e \in Ent, Expire(e) PROVE Typed'
  BY <1>1 DEF Expire, Typed, TypeOK, Flying, Requested, Busy, In, Is
<1>2. ASSUME NEW e \in Ent, Certify(e) PROVE Typed'
  <2>1. /\ row' \in [Ent -> Row]
        /\ \A f \in Ent : row'[f].state = row[f].state /\ row'[f].place = row[f].place
    BY <1>2 DEF Certify, Typed, TypeOK, Row
  <2>2. UNCHANGED <<due, member, h, calls, left>>
    BY <1>2 DEF Certify
  <2>3. Flying'
    BY <2>1, <2>2 DEF Typed, TypeOK, Flying, Busy, In, Is, Flight
  <2> QED BY <2>1, <2>2, <2>3 DEF Typed, TypeOK, Requested
<1>3. ASSUME NEW e \in Ent, NEW p \in Place, RequestJit(e, p) PROVE Typed'
  <2>1. /\ row' \in [Ent -> Row]
        /\ row'[e].state = "approved" /\ row'[e].place = p
        /\ \A f \in Ent \ {e} : row'[f] = row[f]
    BY <1>3 DEF RequestJit, Typed, TypeOK, Row, States
  <2>2. UNCHANGED <<due, member, h, calls, left>>
    BY <1>3 DEF RequestJit
  <2>3. \A f \in Ent : row[f].state # "none" => row'[f].state # "none"
    BY <2>1
  <2>4. Flying'
    BY <2>2, <2>3 DEF Typed, TypeOK, Flying, Busy, In, Is, Flight
  <2> QED BY <2>1, <2>2, <2>4 DEF Typed, TypeOK, Requested
<1>4. ASSUME NEW x \in Handler, Sweep(x) PROVE Typed'
  <2>1. h' = [h EXCEPT ![x] = [kind |-> "revoke", ent |-> None, pc |-> "next",
                               ok |-> TRUE, todo |-> DueRows]]
    BY <1>4 DEF Sweep
  <2>2. DueRows \subseteq Ent /\ \A e \in DueRows : row[e].state # "none"
    BY DEF DueRows, NeedsRevocation
  <2>3. h' \in [Handler -> Flight \cup {None}]
    BY <2>1, <2>2 DEF Typed, TypeOK, Flight
  <2>4. Flying'
    BY <1>4, <2>1, <2>2, <2>3 DEF Sweep, Typed, TypeOK, Flying, Busy, In, Is, Flight
  <2> QED BY <1>4, <2>3, <2>4 DEF Sweep, Typed, TypeOK, Requested
<1>5. ASSUME NEW x \in Handler, NEW e \in Ent, SweepNext(x, e) PROVE Typed'
  <2>1. h[x] \in Flight /\ h[x].pc = "next" /\ h[x].kind = "revoke" /\ e \in h[x].todo
    BY <1>5, FlightType DEF SweepNext, In
  <2>2. h' = [h EXCEPT ![x] = [kind |-> "revoke", ent |-> e, pc |-> "load", ok |-> TRUE,
                               todo |-> h[x].todo \ {e}]]
    BY <1>5, <2>1 DEF SweepNext, Flight, Typed, TypeOK
  <2>3. h' \in [Handler -> Flight \cup {None}]
    BY <2>1, <2>2 DEF Typed, TypeOK, Flight
  <2>4. \A f \in h[x].todo : row[f].state # "none"
    BY <1>5 DEF SweepNext, Typed, Flying, In
  <2>5. Flying'
    BY <1>5, <2>2, <2>3, <2>4 DEF SweepNext, Typed, TypeOK, Flying, Busy, In, Is, Flight
  <2> QED BY <1>5, <2>3, <2>5 DEF SweepNext, Typed, TypeOK, Requested
<1>6. ASSUME NEW x \in Handler, NEW e \in Ent, NEW kind \in {"provision", "revoke"},
             Call(x, e, kind)
      PROVE  Typed'
  <2>1. h' = [h EXCEPT ![x] = [kind |-> kind, ent |-> e, pc |-> "load",
                               ok |-> TRUE, todo |-> {}]]
    BY <1>6 DEF Call
  <2>2. h' \in [Handler -> Flight \cup {None}]
    BY <2>1 DEF Typed, TypeOK, Flight
  <2>3. Flying'
    BY <1>6, <2>1, <2>2 DEF Call, Typed, TypeOK, Flying, Busy, In, Is, Flight
  <2> QED BY <1>6, <2>2, <2>3 DEF Call, Typed, TypeOK, Requested
<1>7. ASSUME NEW x \in Handler, Load(x) PROVE Typed'
  <2>1. Busy(x) /\ h[x].pc = "load" /\ UNCHANGED <<row, due, member, calls, left>>
    BY <1>7 DEF Load, In
  <2>2. CASE Done(x)
    BY <2>1, <2>2, DoneTyped DEF Typed, TypeOK
  <2>3. CASE Goto(x, "mark")
    BY <2>1, <2>3, GotoTyped DEF Typed, TypeOK
  <2> QED BY <1>7, <2>2, <2>3 DEF Load
<1>8. ASSUME NEW x \in Handler, Mark(x) PROVE Typed'
  <2>1. h[x] \in Flight /\ h[x].pc = "mark" /\ h[x].ent \in Ent
        /\ row[h[x].ent].state # "none"
    BY <1>8, FlightType DEF Mark, In
  <2>2. h' = [h EXCEPT ![x].pc = "look"] /\ UNCHANGED <<due, member, calls, left>>
    BY <1>8 DEF Mark, Goto
  <2>3. PICK state \in {"provisioning", "revoking"} : SetState(h[x].ent, state)
    BY <1>8 DEF Mark
  <2>4. /\ row' \in [Ent -> Row]
        /\ \A f \in Ent : row'[f].place = row[f].place
        /\ \A f \in Ent : row[f].state = "none" => row'[f].state = "none"
        /\ \A f \in Ent : row[f].state # "none" => row'[f].state # "none"
    BY <2>1, <2>3, SetStateType DEF States
  <2>5. h' \in [Handler -> Flight \cup {None}]
    BY <2>1, <2>2 DEF Typed, TypeOK, Flight
  <2>6. /\ h'[x] = [h[x] EXCEPT !.pc = "look"]
        /\ \A y \in Handler \ {x} : h'[y] = h[y]
    BY <2>1, <2>2 DEF Typed, TypeOK
  <2>7. /\ h'[x].kind = h[x].kind /\ h'[x].ent = h[x].ent /\ h'[x].pc = "look"
        /\ h'[x].todo = h[x].todo /\ Busy(x)
    BY <1>8, <2>1, <2>6 DEF Flight, Mark, In
  <2>8. \A f \in Ent : row[f].state # "none" => row'[f].state # "none"
    BY <2>4
  <2>9. ASSUME NEW y \in Handler, Busy(y)'
        PROVE  /\ \A e \in h'[y].todo : row'[e].state # "none"
               /\ h'[y].kind = "provision" => h'[y].todo = {}
               /\ IF h'[y].pc = "next" THEN h'[y].kind = "revoke" /\ h'[y].ent = None
                  ELSE h'[y].ent \in Ent /\ row'[h'[y].ent].state # "none"
    <3>1. CASE y # x
      <4>1. h'[y] = h[y] /\ Busy(y) /\ h[y] \in Flight
        BY <2>6, <2>9, <3>1, FlightType DEF Busy
      <4> QED BY <4>1, <2>8 DEF Typed, Flying, In, Is, Flight
    <3>2. CASE y = x
      BY <2>1, <2>7, <2>8, <3>2 DEF Typed, Flying, In, Is, Flight
    <3> QED BY <3>1, <3>2
  <2>10. Flying'
    BY <2>9 DEF Flying, Busy, In, Is
  <2>11. Requested'
    BY <2>4 DEF Typed, Requested
  <2> QED BY <2>2, <2>4, <2>5, <2>10, <2>11 DEF Typed, TypeOK
<1>9. ASSUME NEW x \in Handler, Look(x) \/ Verify(x) PROVE Typed'
  <2>1. PICK pc \in {"verify", "change", "win", "lose"} : Goto(x, pc)
    BY <1>9 DEF Look, Verify
  <2>2. Busy(x) /\ h[x].pc # "next" /\ UNCHANGED <<row, due, member, calls, left>>
    BY <1>9 DEF Look, Verify, In
  <2> QED BY <2>1, <2>2, GotoTyped DEF Typed, TypeOK
<1>10. ASSUME NEW x \in Handler, Change(x) \/ AnswerLost(x) \/ (Busy(x) /\ Unanswered(x))
       PROVE  Typed'
  <2>1. Busy(x) /\ h[x].pc \in {"look", "change"} /\ UNCHANGED <<row, due, calls>>
    BY <1>10 DEF Change, AnswerLost, Unanswered, In
  <2>2. PlaceOf(x) \in Place
    BY <2>1, FlightType DEF PlaceOf, Typed, Requested
  <2>3. member' \subseteq Place
    BY <1>10, <2>2 DEF Change, AnswerLost, Unanswered, Apply, Typed, TypeOK
  <2>4. left' \in Nat
    BY <1>10 DEF Change, AnswerLost, Unanswered, Fails, Typed, TypeOK
  <2>5. Goto(x, "verify") \/ Erred(x)
    BY <1>10 DEF Change, AnswerLost, Unanswered
  <2>6. CASE Goto(x, "verify")
    BY <2>1, <2>3, <2>4, <2>6, GotoTyped
  <2>7. CASE Erred(x)
    <3>1. PICK pc \in {"lose", "verify"} : h' = [h EXCEPT ![x].pc = pc, ![x].ok = FALSE]
      BY <2>7 DEF Erred
    <3> QED BY <2>1, <2>3, <2>4, <3>1, GotoTyped
  <2> QED BY <2>5, <2>6, <2>7
<1>11. ASSUME NEW x \in Handler, VerifyFails(x) \/ WinFails(x) PROVE Typed'
  <2>1. Busy(x) /\ h[x].pc # "next" /\ Goto(x, "lose")
        /\ UNCHANGED <<row, due, member, calls>> /\ left' \in Nat
    BY <1>11 DEF VerifyFails, WinFails, In, Fails, Typed, TypeOK
  <2> QED BY <2>1, GotoTyped DEF Typed, TypeOK
<1>12. ASSUME NEW x \in Handler, Win(x) PROVE Typed'
  <2>1. Busy(x) /\ h[x].pc = "win" /\ h[x].ent \in Ent /\ row[h[x].ent].state # "none"
        /\ Done(x) /\ UNCHANGED <<due, member, calls, left>>
    BY <1>12, FlightType DEF Win, In
  <2>2. PICK state \in {"active", "revoked"}, revoked \in BOOLEAN :
          row' = [row EXCEPT ![h[x].ent].state = state, ![h[x].ent].revoked = revoked]
    BY <1>12, <2>1 DEF Win, Typed, TypeOK, Row
  <2>3. /\ row' \in [Ent -> Row]
        /\ \A f \in Ent : row'[f].place = row[f].place
        /\ \A f \in Ent : row[f].state = "none" => row'[f].state = "none"
        /\ \A f \in Ent : row[f].state # "none" => row'[f].state # "none"
    BY <2>1, <2>2 DEF Typed, TypeOK, Row, States
  <2> QED BY <2>1, <2>3, DoneTyped
<1>13. ASSUME NEW x \in Handler, Lose(x) PROVE Typed'
  <2>1. Busy(x) /\ h[x].pc = "lose" /\ h[x].ent \in Ent /\ row[h[x].ent].state # "none"
        /\ Done(x) /\ UNCHANGED <<due, member, calls, left>>
    BY <1>13, FlightType DEF Lose, In
  <2>2. PICK state \in {"provision_failed", "revoke_failed"} : SetState(h[x].ent, state)
    BY <1>13 DEF Lose
  <2>3. /\ row' \in [Ent -> Row]
        /\ \A f \in Ent : row'[f].place = row[f].place
        /\ \A f \in Ent : row[f].state = "none" => row'[f].state = "none"
        /\ \A f \in Ent : row[f].state # "none" => row'[f].state # "none"
    BY <2>1, <2>2, SetStateType DEF States
  <2> QED BY <2>1, <2>3, DoneTyped
<1>14. ASSUME NEW x \in Handler, Die(x) PROVE Typed'
  BY <1>14 DEF Die, Fails, Typed, TypeOK, Flying, Requested, Busy, In, Is
<1>15. CASE UNCHANGED vars
  BY <1>15 DEF vars, Typed, TypeOK, Flying, Requested, Busy, In, Is
<1> QED BY <1>1, <1>2, <1>3, <1>4, <1>5, <1>6, <1>7, <1>8, <1>9, <1>10, <1>11, <1>12,
           <1>13, <1>14, <1>15 DEF Next, Step, Fault

(* Type correctness: rows, handlers and the directory stay well typed. *)
THEOREM TypeCorrect == Spec => []TypeOK
<1>1. Typed => TypeOK
  BY DEF Typed
<1> QED BY InitTyped, TypedStep, <1>1, PTL DEF Spec

-----------------------------------------------------------------------------
(* Steps *)

LEMMA GotoFacts ==
  ASSUME Typed, NEW x \in Handler, Busy(x), h[x].pc # "next",
         NEW pc \in {"mark", "look", "change", "verify", "win", "lose"},
         NEW ok \in BOOLEAN,
         h' = [h EXCEPT ![x].pc = pc, ![x].ok = ok] \/ Goto(x, pc)
  PROVE  /\ Busy(x)' /\ h'[x].pc = pc /\ h'[x].ent = h[x].ent /\ h'[x].kind = h[x].kind
         /\ \A y \in Handler \ {x} : h'[y] = h[y]
<1>1. h[x] \in Flight
  BY FlightType
<1>2. /\ h'[x].pc = pc /\ h'[x].ent = h[x].ent /\ h'[x].kind = h[x].kind
      /\ h'[x] \in Flight
      /\ \A y \in Handler \ {x} : h'[y] = h[y]
  BY <1>1 DEF Goto, Flight, Typed, TypeOK
<1> QED BY <1>2, FlightAssumption DEF Busy

LEMMA DoneFacts ==
  ASSUME Typed, NEW x \in Handler, Busy(x), Done(x)
  PROVE  /\ Busy(x)' => h'[x].pc = "next" /\ h'[x].ent = None /\ h'[x].kind = h[x].kind
         /\ \A y \in Handler \ {x} : h'[y] = h[y]
<1>1. h[x] \in Flight
  BY FlightType
<1>2. h'[x] = After(x) /\ \A y \in Handler \ {x} : h'[y] = h[y]
  BY DEF Done, Typed, TypeOK
<1> QED BY <1>1, <1>2 DEF After, Flight, Busy

(* A step that starts nothing keeps who is on which entitlement. *)
LEMMA SameKinds ==
  ASSUME Kinds,
         \A y \in Handler : Busy(y)' => /\ Busy(y) /\ h'[y].kind = h[y].kind
                                        /\ h'[y].ent \in {h[y].ent, None}
  PROVE  Kinds'
BY JitAssumption DEF Kinds, OnEnt, Busy

(* What a step that turns no row and starts nothing past its first statement
   keeps. *)
LEMMA QuietStep ==
  ASSUME IInv, member' = member,
         \A f \in Ent : row'[f].state = row[f].state /\ row'[f].place = row[f].place,
         \A y \in Handler : Busy(y)' /\ h'[y].pc \in Past =>
             /\ Busy(y) /\ h[y].pc \in Past
             /\ h'[y].ent = h[y].ent /\ h'[y].kind = h[y].kind
             /\ h'[y].pc = "win" => h[y].pc = "win"
  PROVE  Marked' /\ Supported' /\ ActiveHas' /\ WinHas'
<1>1. \A y \in Handler : Busy(y) /\ h[y].pc \in Past => h[y].ent \in Ent
  BY FlightType DEF IInv, Past
<1>2. Marked'
  BY <1>1 DEF IInv, Marked, Busy
<1>3. \A f \in Ent : Leaving(f)' => Leaving(f)
  BY DEF Leaving, OnEnt, Is, In, Busy, Past
<1>4. Supported'
  BY <1>3 DEF IInv, Supported, AnswersFor
<1>5. \A f \in Ent : Sole(f)' => Sole(f)
  BY DEF Sole
<1>6. ActiveHas'
  BY <1>5 DEF IInv, ActiveHas
<1>7. WinHas'
  <2> SUFFICES ASSUME NEW y \in Handler, In(y, "win")', Is(y, "provision")', Sole(h[y].ent)'
               PROVE  PlaceOf(y)' \in member
    BY DEF WinHas
  <2>1. /\ Busy(y) /\ h[y].pc = "win" /\ h[y].kind = "provision"
        /\ h'[y].ent = h[y].ent /\ h[y].ent \in Ent
    BY <1>1 DEF In, Is, Busy, Past
  <2>2. Sole(h[y].ent)
    BY <2>1 DEF Sole
  <2> QED BY <2>1, <2>2 DEF IInv, WinHas, In, Is, PlaceOf
<1> QED BY <1>2, <1>4, <1>6, <1>7

(* A handler's statement on its own entitlement: a state of its kind. *)
LEMMA StateStep ==
  ASSUME IInv, NEW x \in Handler, Busy(x), h[x].pc # "next",
         NEW state \in StatesOf(h[x].kind),
         row'[h[x].ent].state = state, member' = member,
         \A f \in Ent \ {h[x].ent} : row'[f].state = row[f].state,
         \A f \in Ent : row'[f].place = row[f].place,
         \A y \in Handler \ {x} : h'[y] = h[y],
         Busy(x)' => /\ h'[x].pc # "win" /\ h'[x].kind = h[x].kind
                     /\ h'[x].pc \in Past => h'[x].ent = h[x].ent,
         state = "active" => In(x, "win"), state = "revoked" => In(x, "win")
  PROVE  Marked' /\ Supported' /\ ActiveHas' /\ WinHas'
<1>1. h[x] \in Flight /\ h[x].ent \in Ent
  BY FlightType DEF IInv
<1>2. Marked'
  <2> SUFFICES ASSUME NEW y \in Handler, Busy(y)', h'[y].pc \in Past
               PROVE  row'[h'[y].ent].state \in StatesOf(h'[y].kind)
    BY DEF Marked
  <2>1. CASE y = x
    BY <2>1
  <2>2. CASE y # x
    <3>1. h'[y] = h[y] /\ Busy(y) /\ h[y].ent \in Ent
      BY <2>2, FlightType DEF Busy, Past, IInv
    <3>2. CASE h[y].ent = h[x].ent
      BY <3>1, <3>2, <1>1 DEF IInv, Kinds, OnEnt
    <3>3. CASE h[y].ent # h[x].ent
      BY <3>1, <3>3 DEF IInv, Marked
    <3> QED BY <3>2, <3>3
  <2> QED BY <2>1, <2>2
<1>3. \A f \in Ent : Leaving(f)' => Leaving(f)
  BY DEF Leaving, OnEnt, Is, In, Busy
<1>4. Supported'
  <2> SUFFICES ASSUME NEW p \in member
               PROVE  \E f \in Ent : AnswersFor(f, p)' /\ ~ Leaving(f)'
    BY DEF Supported
  <2>1. PICK f \in Ent : AnswersFor(f, p) /\ ~ Leaving(f)
    BY DEF IInv, Supported
  <2>2. row'[f].place = p
    BY <2>1 DEF AnswersFor
  <2>3. row'[f].state \notin {"none", "approved", "revoked"}
    <3>1. CASE f # h[x].ent
      BY <2>1, <3>1 DEF AnswersFor
    <3>2. CASE f = h[x].ent /\ state = "revoked"
      <4>1. h[x].kind = "revoke"
        BY <1>1, <3>2 DEF StatesOf, Flight
      <4> QED BY <2>1, <3>2, <4>1 DEF Leaving, OnEnt, Is, In
    <3>3. CASE f = h[x].ent /\ state # "revoked"
      BY <3>3 DEF StatesOf
    <3> QED BY <3>1, <3>2, <3>3
  <2> QED BY <1>3, <2>1, <2>2, <2>3 DEF AnswersFor
<1>5. \A f \in Ent : Sole(f)' => Sole(f)
  BY DEF Sole
<1>6. ActiveHas'
  <2> SUFFICES ASSUME NEW f \in Ent, row'[f].state = "active", Sole(f)
               PROVE  row[f].place \in member
    BY <1>5 DEF ActiveHas
  <2>1. CASE f # h[x].ent
    BY <2>1 DEF IInv, ActiveHas
  <2>2. CASE f = h[x].ent
    <3>1. h[x].kind = "provision" /\ In(x, "win")
      BY <1>1, <2>2 DEF StatesOf, Flight
    <3> QED BY <2>2, <3>1 DEF IInv, WinHas, Is, PlaceOf, Busy
  <2> QED BY <2>1, <2>2
<1>7. WinHas'
  <2> SUFFICES ASSUME NEW y \in Handler, In(y, "win")', Is(y, "provision")', Sole(h[y].ent)'
               PROVE  PlaceOf(y)' \in member
    BY DEF WinHas
  <2>1. y # x /\ h'[y] = h[y] /\ Busy(y)
    BY DEF In, Busy
  <2>2. h[y].ent \in Ent /\ h[y].pc = "win" /\ h[y].kind = "provision"
    BY <2>1, FlightType DEF In, Is, IInv
  <2>3. Sole(h[y].ent)
    BY <2>1, <2>2 DEF Sole
  <2> QED BY <2>1, <2>2, <2>3 DEF IInv, WinHas, In, Is, PlaceOf
<1> QED BY <1>2, <1>4, <1>6, <1>7

(* A change that the directory accepts: a provisioning adds the membership it
   answers for; a revocation removes the one of an entitlement that is not
   active and that nobody provisions. *)
LEMMA ApplyStep ==
  ASSUME IInv, NEW x \in Handler, In(x, "change"), Apply(x), row' = row,
         Busy(x)' /\ h'[x].pc \in {"verify", "lose"},
         h'[x].ent = h[x].ent, h'[x].kind = h[x].kind,
         \A y \in Handler \ {x} : h'[y] = h[y]
  PROVE  Marked' /\ Supported' /\ ActiveHas' /\ WinHas'
<1>1. h[x] \in Flight /\ h[x].ent \in Ent /\ Busy(x) /\ h[x].pc = "change"
  BY FlightType DEF IInv, In
<1>2. row[h[x].ent].state \in StatesOf(h[x].kind)
  BY <1>1 DEF IInv, Marked, Past
<1>3. \A y \in Handler : Busy(y)' => Busy(y) /\ h'[y].ent = h[y].ent /\ h'[y].kind = h[y].kind
  BY <1>1 DEF Busy
<1>4. \A y \in Handler : Busy(y)' /\ h'[y].pc \in Past => h[y].pc \in Past
  BY <1>1 DEF Past
<1>5. \A y \in Handler : In(y, "win")' => In(y, "win")
  BY DEF In, Busy
<1>6. Marked'
  BY <1>3, <1>4 DEF IInv, Marked
<1>7. \A f \in Ent : Leaving(f)' => Leaving(f)
  BY <1>3, <1>5 DEF Leaving, OnEnt, Is
<1>8. CASE h[x].kind = "provision"
  <2>1. member' = member \cup {PlaceOf(x)}
    BY <1>8, <1>1 DEF Apply, Is
  <2>2. AnswersFor(h[x].ent, PlaceOf(x)) /\ ~ Leaving(h[x].ent)
    <3>1. AnswersFor(h[x].ent, PlaceOf(x))
      BY <1>2, <1>8 DEF AnswersFor, PlaceOf, StatesOf
    <3>2. \A y \in Handler : OnEnt(y, h[x].ent) => h[y].kind = "provision"
      BY <1>1, <1>8 DEF IInv, Kinds, OnEnt
    <3> QED BY <3>1, <3>2 DEF Leaving, Is
  <2>3. Supported'
    BY <1>1, <1>7, <2>1, <2>2 DEF IInv, Supported, AnswersFor
  <2>4. ActiveHas'
    BY <2>1 DEF IInv, ActiveHas, Sole
  <2>5. WinHas'
    BY <1>3, <1>5, <2>1 DEF IInv, WinHas, Sole, Is, PlaceOf
  <2> QED BY <1>6, <2>3, <2>4, <2>5
<1>9. CASE h[x].kind = "revoke"
  <2>1. member' = member \ {PlaceOf(x)}
    BY <1>9, <1>1 DEF Apply, Is
  <2>2. Supported'
    BY <1>7, <2>1 DEF IInv, Supported, AnswersFor
  <2>3. \A f \in Ent : Sole(f) /\ row[f].place = PlaceOf(x) => f = h[x].ent
    BY <1>1 DEF Sole, PlaceOf
  <2>4. ActiveHas'
    <3> SUFFICES ASSUME NEW f \in Ent, row[f].state = "active", Sole(f)
                 PROVE  row[f].place \in member'
      BY DEF ActiveHas, Sole
    <3>1. f # h[x].ent
      BY <1>2, <1>9 DEF StatesOf
    <3> QED BY <2>1, <2>3, <3>1 DEF IInv, ActiveHas
  <2>5. WinHas'
    <3> SUFFICES ASSUME NEW y \in Handler, In(y, "win")', Is(y, "provision")', Sole(h[y].ent)'
                 PROVE  PlaceOf(y)' \in member'
      BY DEF WinHas
    <3>1. /\ In(y, "win") /\ h'[y].ent = h[y].ent /\ h[y].kind = "provision"
          /\ Busy(y) /\ h[y].ent \in Ent
      BY <1>3, <1>5, FlightType DEF In, Is, IInv
    <3>2. Sole(h[y].ent)
      BY <3>1 DEF Sole
    <3>3. h[y].ent # h[x].ent
      BY <1>1, <1>9, <3>1 DEF IInv, Kinds, OnEnt
    <3> QED BY <2>1, <2>3, <3>1, <3>2, <3>3 DEF IInv, WinHas, Is, PlaceOf
  <2> QED BY <1>6, <2>2, <2>4, <2>5
<1> QED BY <1>1, <1>8, <1>9 DEF Flight

(* A search on its own: a handler is to write what it has seen. *)
LEMMA VerifyStep ==
  ASSUME IInv, NEW x \in Handler, Verify(x)
  PROVE  Marked' /\ Supported' /\ ActiveHas' /\ WinHas'
<1>1. h[x] \in Flight /\ h[x].ent \in Ent /\ Busy(x) /\ h[x].pc = "verify"
  BY FlightType DEF IInv, In, Verify
<1>2. PICK pc \in {"win", "lose"} :
        /\ Goto(x, pc)
        /\ pc = "win" => Present(x) = Is(x, "provision")
  BY DEF Verify
<1>3. row' = row /\ member' = member
  BY DEF Verify
<1>4. /\ Busy(x)' /\ h'[x].pc = pc /\ h'[x].ent = h[x].ent /\ h'[x].kind = h[x].kind
      /\ \A y \in Handler \ {x} : h'[y] = h[y]
  BY <1>1, <1>2, GotoFacts DEF IInv
<1>5. CASE pc = "lose"
  BY <1>1, <1>3, <1>4, <1>5, QuietStep DEF Busy, Past
<1>6. CASE pc = "win"
  <2>1. Marked'
    BY <1>1, <1>3, <1>4 DEF IInv, Marked, Busy, Past
  <2>2. ActiveHas'
    BY <1>3 DEF IInv, ActiveHas, Sole
  <2>3. \A f \in Ent : Leaving(f)' => Leaving(f) \/ (f = h[x].ent /\ h[x].kind = "revoke")
    BY <1>4 DEF Leaving, OnEnt, Is, In, Busy
  <2>4. Supported'
    <3> SUFFICES ASSUME NEW p \in member
                 PROVE  \E f \in Ent : AnswersFor(f, p)' /\ ~ Leaving(f)'
      BY <1>3 DEF Supported
    <3>1. PICK f \in Ent : AnswersFor(f, p) /\ ~ Leaving(f)
      BY DEF IInv, Supported
    <3>2. f = h[x].ent => h[x].kind # "revoke"
      BY <1>1, <1>2, <1>6, <3>1 DEF Present, PlaceOf, Is, AnswersFor
    <3> QED BY <1>3, <2>3, <3>1, <3>2 DEF AnswersFor
  <2>5. WinHas'
    <3> SUFFICES ASSUME NEW y \in Handler, In(y, "win")', Is(y, "provision")', Sole(h[y].ent)'
                 PROVE  PlaceOf(y)' \in member
      BY <1>3 DEF WinHas
    <3>1. CASE y = x
      BY <1>1, <1>2, <1>3, <1>4, <1>6, <3>1 DEF Present, PlaceOf, Is
    <3>2. CASE y # x
      <4>1. h'[y] = h[y] /\ In(y, "win") /\ Is(y, "provision")
        BY <1>4, <3>2 DEF In, Is, Busy
      <4>2. Sole(h[y].ent)
        BY <1>3, <4>1 DEF Sole
      <4> QED BY <1>3, <4>1, <4>2 DEF IInv, WinHas, PlaceOf
    <3> QED BY <3>1, <3>2
  <2> QED BY <2>1, <2>2, <2>4, <2>5
<1> QED BY <1>5, <1>6

(* A new row: no handler is on it. *)
LEMMA RequestStep ==
  ASSUME IInv, NEW e \in Ent, NEW p \in Place, RequestJit(e, p)
  PROVE  Marked' /\ Supported' /\ ActiveHas' /\ WinHas'
<1>1. /\ row[e].state = "none" /\ row[e].place = None
      /\ row'[e].state = "approved" /\ \A f \in Ent \ {e} : row'[f] = row[f]
  BY DEF RequestJit, IInv, Typed, TypeOK, Requested, Row
<1>2. h' = h /\ member' = member
  BY DEF RequestJit
<1>3. \A y \in Handler : Busy(y) /\ h[y].pc # "next" => h[y].ent \in Ent \ {e}
  BY <1>1, FlightType DEF IInv
<1>4. Marked'
  BY <1>1, <1>2, <1>3 DEF IInv, Marked, Busy, Past
<1>5. \A f \in Ent : Leaving(f)' => Leaving(f)
  BY <1>2 DEF Leaving, OnEnt, Is, In, Busy
<1>6. Supported'
  BY <1>1, <1>2, <1>5 DEF IInv, Supported, AnswersFor
<1>7. \A f \in Ent \ {e} : row[f].state # "none" /\ Sole(f)' => Sole(f)
  <2> SUFFICES ASSUME NEW f \in Ent \ {e}, row[f].state # "none", Sole(f)',
                      NEW g \in Ent, row[g].place = row[f].place
               PROVE  g = f
    BY DEF Sole
  <2>1. row[f].place \in Place
    BY DEF IInv, Typed, Requested
  <2>2. g # e
    BY <1>1, <2>1, JitAssumption
  <2> QED BY <1>1, <2>2 DEF Sole
<1>8. ActiveHas'
  BY <1>1, <1>2, <1>7 DEF IInv, ActiveHas
<1>9. WinHas'
  <2> SUFFICES ASSUME NEW y \in Handler, In(y, "win"), Is(y, "provision"), Sole(h[y].ent)'
               PROVE  PlaceOf(y)' \in member
    BY <1>2 DEF WinHas, In, Is, Busy, Sole
  <2>1. h[y].ent \in Ent \ {e} /\ row[h[y].ent].state # "none"
    BY <1>3, FlightType DEF In, IInv
  <2> QED BY <1>1, <1>2, <1>7, <2>1 DEF IInv, WinHas, PlaceOf
<1> QED BY <1>4, <1>6, <1>8, <1>9

(* Provisioning and revoking exclude each other. *)
Apart == "overlap" \notin Allow

LEMMA StartKinds ==
  ASSUME Apart, IInv, NEW x \in Handler, NEW e \in Ent,
         NEW kind \in {"provision", "revoke"}, Free(e, kind),
         h'[x].kind = kind, h'[x].ent = e,
         \A y \in Handler \ {x} : h'[y] = h[y]
  PROVE  Kinds'
<1>1. \A y \in Handler \ {x} : OnEnt(y, e)' => h'[y].kind = kind
  BY DEF Apart, Free, OnEnt, Is, Busy
<1> QED BY <1>1 DEF IInv, Kinds, OnEnt, Busy

LEMMA InvStep == Apart /\ IInv /\ [Next]_vars => IInv'
<1> SUFFICES ASSUME Apart, IInv, [Next]_vars PROVE IInv'
  OBVIOUS
<1>0. Typed' /\ Typed
  BY TypedStep DEF IInv
<1> USE <1>0
<1> SUFFICES Kinds' /\ Marked' /\ Supported' /\ ActiveHas' /\ WinHas'
  BY DEF IInv
<1>1. ASSUME h' = h,
             \A f \in Ent : row'[f].state = row[f].state /\ row'[f].place = row[f].place,
             member' = member
      PROVE  Kinds' /\ Marked' /\ Supported' /\ ActiveHas' /\ WinHas'
  <2>1. Kinds'
    BY <1>1 DEF IInv, Kinds, OnEnt, Busy
  <2> QED BY <1>1, <2>1, QuietStep DEF Busy
<1>2. ASSUME NEW e \in Ent, Expire(e) \/ Certify(e)
      PROVE  Kinds' /\ Marked' /\ Supported' /\ ActiveHas' /\ WinHas'
  <2>1. h' = h /\ member' = member
    BY <1>2 DEF Expire, Certify
  <2>2. \A f \in Ent : row'[f].state = row[f].state /\ row'[f].place = row[f].place
    BY <1>2 DEF Expire, Certify, Typed, TypeOK, Row
  <2> QED BY <1>1, <2>1, <2>2
<1>3. ASSUME NEW e \in Ent, NEW p \in Place, RequestJit(e, p)
      PROVE  Kinds' /\ Marked' /\ Supported' /\ ActiveHas' /\ WinHas'
  <2>1. Kinds'
    BY <1>3 DEF RequestJit, IInv, Kinds, OnEnt, Busy
  <2> QED BY <1>3, <2>1, RequestStep
<1>4. ASSUME NEW x \in Handler, Sweep(x)
      PROVE  Kinds' /\ Marked' /\ Supported' /\ ActiveHas' /\ WinHas'
  <2>1. /\ h'[x].ent = None /\ h'[x].pc = "next"
        /\ \A y \in Handler \ {x} : h'[y] = h[y]
        /\ row' = row /\ member' = member
    BY <1>4 DEF Sweep, Typed, TypeOK
  <2>2. Kinds'
    BY <2>1, JitAssumption DEF IInv, Kinds, OnEnt, Busy
  <2> QED BY <2>1, <2>2, QuietStep DEF Busy, Past
<1>5. ASSUME NEW x \in Handler, NEW e \in Ent, SweepNext(x, e)
      PROVE  Kinds' /\ Marked' /\ Supported' /\ ActiveHas' /\ WinHas'
  <2>1. h[x] \in Flight /\ h[x].kind = "revoke" /\ Free(e, "revoke")
    BY <1>5, FlightType DEF SweepNext, In
  <2>2. /\ h'[x].ent = e /\ h'[x].pc = "load" /\ h'[x].kind = "revoke"
        /\ \A y \in Handler \ {x} : h'[y] = h[y]
        /\ row' = row /\ member' = member
    BY <1>5, <2>1 DEF SweepNext, Typed, TypeOK, Flight
  <2>3. Kinds'
    BY <2>1, <2>2, StartKinds
  <2> QED BY <2>2, <2>3, QuietStep DEF Busy, Past
<1>6. ASSUME NEW x \in Handler, NEW e \in Ent, NEW kind \in {"provision", "revoke"},
             Call(x, e, kind)
      PROVE  Kinds' /\ Marked' /\ Supported' /\ ActiveHas' /\ WinHas'
  <2>1. /\ h'[x].ent = e /\ h'[x].pc = "load" /\ h'[x].kind = kind
        /\ \A y \in Handler \ {x} : h'[y] = h[y]
        /\ row' = row /\ member' = member /\ Free(e, kind)
    BY <1>6 DEF Call, Typed, TypeOK
  <2>2. Kinds'
    BY <2>1, StartKinds
  <2> QED BY <2>1, <2>2, QuietStep DEF Busy, Past
<1>7. ASSUME NEW x \in Handler, Busy(x),
             \A y \in Handler \ {x} : h'[y] = h[y],
             Busy(x)' => h'[x].ent \in {h[x].ent, None} /\ h'[x].kind = h[x].kind
      PROVE  Kinds'
  BY <1>7, SameKinds DEF IInv, Busy
<1>8. ASSUME NEW x \in Handler, Load(x)
      PROVE  Kinds' /\ Marked' /\ Supported' /\ ActiveHas' /\ WinHas'
  <2>1. Busy(x) /\ h[x].pc = "load" /\ row' = row /\ member' = member
    BY <1>8 DEF Load, In
  <2>2. /\ \A y \in Handler \ {x} : h'[y] = h[y]
        /\ Busy(x)' => /\ h'[x].pc \in {"next", "mark"} /\ h'[x].kind = h[x].kind
                       /\ h'[x].ent \in {h[x].ent, None}
    BY <1>8, <2>1, GotoFacts, DoneFacts DEF Load
  <2>3. Kinds'
    BY <1>7, <2>1, <2>2
  <2> QED BY <2>1, <2>2, <2>3, QuietStep DEF Busy, Past
<1>9. ASSUME NEW x \in Handler, Mark(x)
      PROVE  Kinds' /\ Marked' /\ Supported' /\ ActiveHas' /\ WinHas'
  <2>1. /\ h[x] \in Flight /\ h[x].pc = "mark" /\ Busy(x) /\ h[x].ent \in Ent
        /\ row[h[x].ent].state # "none" /\ member' = member
    BY <1>9, FlightType DEF Mark, In
  <2>2. /\ Busy(x)' /\ h'[x].pc = "look" /\ h'[x].ent = h[x].ent /\ h'[x].kind = h[x].kind
        /\ \A y \in Handler \ {x} : h'[y] = h[y]
    BY <1>9, <2>1, GotoFacts DEF Mark
  <2>3. PICK state \in StatesOf(h[x].kind) :
          SetState(h[x].ent, state) /\ state \in {"provisioning", "revoking"}
    BY <1>9, <2>1 DEF Mark, Is, StatesOf, Flight
  <2>4. /\ row'[h[x].ent].state = state
        /\ \A f \in Ent \ {h[x].ent} : row'[f].state = row[f].state
        /\ \A f \in Ent : row'[f].place = row[f].place
    BY <2>1, <2>3, SetStateType DEF States
  <2>5. Kinds'
    BY <1>7, <2>1, <2>2
  <2> QED BY <2>1, <2>2, <2>3, <2>4, <2>5, StateStep
<1>10. ASSUME NEW x \in Handler, Look(x) \/ VerifyFails(x) \/ WinFails(x)
       PROVE  Kinds' /\ Marked' /\ Supported' /\ ActiveHas' /\ WinHas'
  <2>1. PICK pc \in {"verify", "change", "lose"} : Goto(x, pc)
    BY <1>10 DEF Look, VerifyFails, WinFails
  <2>2. Busy(x) /\ h[x].pc \in Past /\ row' = row /\ member' = member
    BY <1>10 DEF Look, VerifyFails, WinFails, In, Past
  <2>3. /\ h'[x].pc = pc /\ h'[x].ent = h[x].ent /\ h'[x].kind = h[x].kind
        /\ \A y \in Handler \ {x} : h'[y] = h[y]
    BY <2>1, <2>2, GotoFacts DEF Past
  <2>4. Kinds'
    BY <1>7, <2>2, <2>3
  <2> QED BY <2>2, <2>3, <2>4, QuietStep DEF Busy, Past
<1>11. ASSUME NEW x \in Handler, Change(x) \/ AnswerLost(x) \/ (Busy(x) /\ Unanswered(x))
       PROVE  Kinds' /\ Marked' /\ Supported' /\ ActiveHas' /\ WinHas'
  <2>1. Busy(x) /\ h[x].pc \in {"look", "change"} /\ row' = row
    BY <1>11 DEF Change, AnswerLost, Unanswered, In
  <2>2. Goto(x, "verify") \/ Erred(x)
    BY <1>11 DEF Change, AnswerLost, Unanswered
  <2>3. /\ Busy(x)' /\ h'[x].pc \in {"verify", "lose"}
        /\ h'[x].ent = h[x].ent /\ h'[x].kind = h[x].kind
        /\ \A y \in Handler \ {x} : h'[y] = h[y]
    <3>1. CASE Goto(x, "verify")
      BY <2>1, <3>1, GotoFacts
    <3>2. CASE Erred(x)
      <4>1. PICK pc \in {"verify", "lose"} : h' = [h EXCEPT ![x].pc = pc, ![x].ok = FALSE]
        BY <3>2 DEF Erred
      <4> QED BY <2>1, <4>1, GotoFacts
    <3> QED BY <2>2, <3>1, <3>2
  <2>4. Kinds'
    BY <1>7, <2>1, <2>3
  <2>5. CASE member' = member
    BY <2>1, <2>3, <2>4, <2>5, QuietStep DEF Busy, Past
  <2>6. CASE Apply(x) /\ In(x, "change")
    BY <2>1, <2>3, <2>4, <2>6, ApplyStep
  <2> QED BY <1>11, <2>5, <2>6 DEF Change, AnswerLost, Unanswered
<1>12. ASSUME NEW x \in Handler, Verify(x)
       PROVE  Kinds' /\ Marked' /\ Supported' /\ ActiveHas' /\ WinHas'
  <2>1. Busy(x) /\ h[x].pc = "verify"
    BY <1>12 DEF Verify, In
  <2>2. /\ h'[x].ent = h[x].ent /\ h'[x].kind = h[x].kind
        /\ \A y \in Handler \ {x} : h'[y] = h[y]
    BY <1>12, <2>1, GotoFacts DEF Verify
  <2>3. Kinds'
    BY <1>7, <2>1, <2>2
  <2> QED BY <1>12, <2>3, VerifyStep
<1>13. ASSUME NEW x \in Handler, Win(x) \/ Lose(x)
       PROVE  Kinds' /\ Marked' /\ Supported' /\ ActiveHas' /\ WinHas'
  <2>1. /\ h[x] \in Flight /\ Busy(x) /\ h[x].ent \in Ent /\ h[x].pc # "next"
        /\ Done(x) /\ member' = member
    BY <1>13, FlightType DEF Win, Lose, In
  <2>2. PICK state \in StatesOf(h[x].kind), revoked \in BOOLEAN :
          /\ row' = [row EXCEPT ![h[x].ent].state = state, ![h[x].ent].revoked = revoked]
          /\ state \in {"active", "revoked"} => In(x, "win")
    <3>1. row[h[x].ent] \in Row
      BY <2>1 DEF Typed, TypeOK
    <3>2. CASE Win(x)
      BY <2>1, <3>1, <3>2 DEF Win, Is, StatesOf, Flight, Row
    <3>3. CASE Lose(x)
      <4>1. PICK state \in StatesOf(h[x].kind) :
              /\ row' = [row EXCEPT ![h[x].ent].state = state]
              /\ state \notin {"active", "revoked"}
        BY <2>1, <3>3 DEF Lose, SetState, Is, StatesOf, Flight
      <4>2. row' = [row EXCEPT ![h[x].ent].state = state,
                               ![h[x].ent].revoked = row[h[x].ent].revoked]
        BY <2>1, <3>1, <4>1 DEF Typed, TypeOK, Row
      <4> QED BY <3>1, <4>1, <4>2 DEF Row
    <3> QED BY <1>13, <3>2, <3>3
  <2>3. /\ row'[h[x].ent].state = state
        /\ \A f \in Ent \ {h[x].ent} : row'[f].state = row[f].state
        /\ \A f \in Ent : row'[f].place = row[f].place
    BY <2>1, <2>2 DEF Typed, TypeOK, Row
  <2>4. /\ Busy(x)' => h'[x].pc = "next" /\ h'[x].ent = None /\ h'[x].kind = h[x].kind
        /\ \A y \in Handler \ {x} : h'[y] = h[y]
    BY <2>1, DoneFacts
  <2>5. Kinds'
    BY <1>7, <2>1, <2>4
  <2> QED BY <2>1, <2>2, <2>3, <2>4, <2>5, StateStep DEF Past
<1>14. ASSUME NEW x \in Handler, Busy(x), Die(x)
       PROVE  Kinds' /\ Marked' /\ Supported' /\ ActiveHas' /\ WinHas'
  <2>1. ~ Busy(x)' /\ \A y \in Handler \ {x} : h'[y] = h[y]
    BY <1>14 DEF Die, Busy, Typed, TypeOK
  <2>2. row' = row /\ member' = member
    BY <1>14 DEF Die
  <2>3. Kinds'
    BY <1>7, <1>14, <2>1
  <2> QED BY <2>1, <2>2, <2>3, QuietStep DEF Busy, Past
<1>15. CASE UNCHANGED vars
  BY <1>1, <1>15 DEF vars
<1> QED BY <1>2, <1>3, <1>4, <1>5, <1>6, <1>8, <1>9, <1>10, <1>11, <1>12, <1>13, <1>14,
           <1>15 DEF Next, Step, Fault

LEMMA InvInit == Init => IInv
BY InitTyped
DEF Init, IInv, Kinds, Marked, Supported, ActiveHas, WinHas, OnEnt, Busy, In

LEMMA Invariant == Apart => (Spec => []IInv)
<1> HAVE Apart
<1>1. IInv /\ [Next]_vars => IInv'
  BY InvStep
<1> QED BY InvInit, <1>1, PTL DEF Spec

(* No membership is forgotten: while it exists an entitlement's state says that
   it may, whatever fails and whatever a review flags. *)
THEOREM NoMembershipForgotten == Apart => (Spec => []MembershipsAnsweredFor)
<1>1. IInv => MembershipsAnsweredFor
  BY DEF IInv, Supported, MembershipsAnsweredFor
<1> QED BY Invariant, <1>1, PTL

(* The only entitlement of a membership that says active has it. *)
THEOREM ActiveHasMembership == Apart => (Spec => []ActiveIsMember)
<1>1. IInv => ActiveIsMember
  BY DEF IInv, ActiveHas, ActiveIsMember
<1> QED BY Invariant, <1>1, PTL
=============================================================================
