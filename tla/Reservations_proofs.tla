------------------------ MODULE Reservations_proofs ------------------------
(***************************************************************************)
(* Proofs about Reservations, for any tablets, threads, commands, resources*)
(* and zones: the tables always verify, every tablet is told the truth, no *)
(* update is lost, and a lost answer is found again.                       *)
(*                                                                         *)
(* The inductive invariant says of each command what its body, its events, *)
(* its answer and the threads that serve it have to do with one another:   *)
(* the first request of a command is served by one thread, which alone may *)
(* answer, and any other thread with the command serves a repetition.  Of  *)
(* the calendars it says that an event's revision is at most its           *)
(* resource's, which the next event exceeds.                               *)
(***************************************************************************)
EXTENDS Reservations, FiniteSetTheorems, TLAPS

\* The events of one resource.
Of(r) == {e \in log : e.resource = r}

\* What a command was sent with.
BodyFacts ==
    \A k \in Command :
        /\ body[k] = None => k \notin delivered
        /\ body[k] # None =>
             /\ body[k].kind = "create" => body[k].draft \in Draft
             /\ body[k].kind = "cancel" =>
                  /\ body[k].target \in Command /\ bookings[body[k].target] # None
                  /\ bookings[body[k].target].resource = body[k].resource

\* What a command that did not arrive has not done, nor one whose first request is not
\* answered and that came once.
ArrivalFacts ==
    \A k \in Command :
        /\ k \notin delivered => answer[k] = "nothing" /\ ~Carried(k)
        /\ answer[k] = "nothing" /\ k \notin duplicated => ~Carried(k)

\* The threads: the first request of a command, or a repetition.
CallFacts ==
    \A h \in Handler : call[h].pc # "idle" =>
        LET k == call[h].command IN
        /\ k \in delivered
        /\ IF call[h].own THEN answer[k] = "nothing" ELSE k \in duplicated
        /\ call[h].pc = "active" => body[k].kind = "create"
        /\ call[h].pc = "commit" => body[k].kind \in {"create", "cancel"}

OneOwner ==
    \A g, h \in Handler :
        /\ call[g].pc # "idle" /\ call[h].pc # "idle"
        /\ call[g].own /\ call[h].own /\ call[g].command = call[h].command
        => g = h

\* The calendars and their events.
LogFacts ==
    /\ IsFiniteSet(log)
    /\ \A r \in Resource : calendar[r] = 1 + Cardinality(Of(r))
    /\ \A e \in log :
         /\ body[e.command] # None /\ e.actor = body[e.command].actor
         /\ e.revision <= calendar[e.resource]
         /\ bookings[e.booking] # None /\ bookings[e.booking].resource = e.resource
         /\ e.action = "created" => e.booking = e.command
    /\ \A e, f \in log :
         /\ e.command = f.command => e = f
         /\ e.resource = f.resource /\ e.revision = f.revision => e = f
         /\ e.booking = f.booking /\ e.action = f.action => e = f

\* The reservations and the events that made and ended them.
BookingFacts ==
    /\ \A b \in Command :
         (bookings[b] # None) <=> \E e \in log : e.booking = b /\ e.action = "created"
    /\ \A e \in log : e.action = "cancelled" =>
         bookings[e.booking].cancelled
         /\ \E f \in log : f.booking = e.booking /\ f.action = "created"
                          /\ f.revision < e.revision

\* A tablet waits for a command of its own.
TabletFacts ==
    \A t \in Tablet : tablet[t].pending # None =>
        body[tablet[t].pending] # None /\ body[tablet[t].pending].actor = t

CatalogFacts == \A e \in catalogLog : body[e.command] # None

IInv == /\ TypeOK /\ BodyFacts /\ ArrivalFacts /\ CallFacts /\ OneOwner
        /\ LogFacts /\ BookingFacts /\ TabletFacts /\ CatalogFacts
        /\ ToldTheTruth /\ NoLostUpdate

-----------------------------------------------------------------------------
(* Numbers *)

\* A set of natural numbers has a least element.
LEMMA LeastExists ==
    ASSUME NEW T, T \subseteq Nat, T # {}
    PROVE  \E x \in T : \A y \in T : x <= y
<1> DEFINE R == {p \in Nat \X Nat : p[1] < p[2]}
<1>1. IsWellFoundedOn(R, Nat)
      BY NatLessThanWellFounded DEF OpToRel
<1> HIDE DEF R
<1>2. PICK x \in T : \A y \in T : ~(<<y, x>> \in R)
      BY <1>1, WFMin
<1>3. ASSUME NEW y \in T
      PROVE  x <= y
  <2>1. ~(<<y, x>> \in R)
        BY <1>2
  <2> QED BY <2>1 DEF R
<1> QED BY <1>3

\* A finite set of natural numbers has a greatest element: a smallest one without would
\* still have none after the loss of one element.
LEMMA GreatestExists ==
    ASSUME NEW T, T \subseteq Nat, T # {}, IsFiniteSet(T)
    PROVE  \E x \in T : \A y \in T : y <= x
<1> DEFINE Topped(U) == \E x \in U : \A y \in U : y <= x
<1> DEFINE Bad == {U \in SUBSET Nat : U # {} /\ IsFiniteSet(U) /\ ~Topped(U)}
<1> DEFINE Sizes == {n \in Nat : \E U \in Bad : Cardinality(U) = n}
<1>1. SUFFICES ASSUME ~Topped(T) PROVE FALSE
      OBVIOUS
<1>2. T \in Bad /\ Cardinality(T) \in Nat
      BY <1>1, FS_CardinalityType
<1>3. Sizes \subseteq Nat /\ Sizes # {}
      BY <1>2
<1>4. PICK n \in Sizes : \A m \in Sizes : n <= m
  <2> HIDE DEF Sizes
  <2> QED BY <1>3, LeastExists
<1>5. PICK U \in Bad : Cardinality(U) = n
      OBVIOUS
<1>6. PICK x \in U : TRUE
      OBVIOUS
<1>7. IsFiniteSet(U \ {x}) /\ Cardinality(U \ {x}) = n - 1
      BY <1>5, <1>6, FS_RemoveElement
<1>8. CASE U \ {x} = {}
  <2>1. \A y \in U : y <= x
        BY <1>8
  <2> QED BY <1>6, <2>1
<1>9. CASE U \ {x} # {}
  <2>1. U \ {x} \notin Bad
    <3>1. SUFFICES ASSUME U \ {x} \in Bad PROVE FALSE
          OBVIOUS
    <3>2. Cardinality(U \ {x}) \in Nat
          BY <1>7, FS_CardinalityType
    <3>3. Cardinality(U \ {x}) \in Sizes
          BY <3>1, <3>2
    <3>4. n \in Nat /\ n <= Cardinality(U \ {x})
          BY <1>4, <3>3
    <3> QED BY <1>7, <3>4
  <2>2. PICK z \in U \ {x} : \A y \in U \ {x} : y <= z
        BY <1>7, <1>9, <2>1
  <2>3. x \in Nat /\ z \in Nat /\ U \subseteq Nat
        OBVIOUS
  <2>4. CASE x <= z
    <3>1. \A y \in U : y <= z
          BY <2>2, <2>4
    <3> QED BY <2>2, <3>1
  <2>5. CASE ~(x <= z)
    <3>1. \A y \in U : y <= x
          BY <2>2, <2>3, <2>5
    <3> QED BY <1>6, <3>1
  <2> QED BY <2>4, <2>5
<1> QED BY <1>8, <1>9

LEMMA MinFacts ==
    ASSUME NEW T, T \subseteq Nat, T # {}
    PROVE  Min(T) \in T
BY LeastExists DEF Min

LEMMA MaxFacts ==
    ASSUME NEW T, T \subseteq Nat, T # {}, IsFiniteSet(T)
    PROVE  Max(T) \in T /\ \A y \in T : y <= Max(T)
<1>1. \E x \in T : \A y \in T : y <= x
      BY GreatestExists
<1>2. \E x \in T : \A y \in T : x >= y
      BY <1>1
<1>3. Max(T) \in T /\ \A y \in T : Max(T) >= y
      BY <1>2 DEF Max
<1> QED BY <1>3

\* The windows of a draft that can be resolved are pairs of instants.
LEMMA OccurrencesType ==
    ASSUME NEW d \in Draft, Resolvable(d)
    PROVE  Occurrences(d) \subseteq Nat \X Nat
<1>1. ASSUME NEW l \in Nominal(d)
      PROVE  LET start == IF d.fold = 0 THEN Min(Readings(l)) ELSE Max(Readings(l))
             IN  <<start, start + d.duration>> \in Nat \X Nat
  <2>1. Readings(l) \subseteq Nat /\ Readings(l) # {} /\ Readings(l) \in SUBSET Instant
        BY <1>1, ReservationsAssumption DEF Readings, Resolvable
  <2>2. IsFiniteSet(Readings(l))
        BY <2>1, ReservationsAssumption, FS_Subset
  <2>3. Min(Readings(l)) \in Nat /\ Max(Readings(l)) \in Nat
        BY <2>1, <2>2, MinFacts, MaxFacts
  <2>4. d.duration \in Nat
        BY ReservationsAssumption
  <2> QED BY <2>3, <2>4
<1> QED BY <1>1 DEF Occurrences

LEMMA RuleTypes ==
    /\ NoRule \in Rule
    /\ Max(Capacities) \in Capacities
    /\ Idle \in [pc : {"idle", "facts", "active", "records", "commit", "mutate"},
                 command : Command \cup {None}, own : BOOLEAN, rule : Rule]
<1>1. Capacities \subseteq Nat /\ Capacities # {} /\ IsFiniteSet(Capacities)
      BY ReservationsAssumption
<1>2. Min(Capacities) \in Capacities /\ Max(Capacities) \in Capacities
      BY <1>1, MinFacts, MaxFacts
<1>3. NoRule \in Rule
      BY <1>2 DEF NoRule, Rule
<1> QED BY <1>2, <1>3 DEF Idle

-----------------------------------------------------------------------------
(* Steps that write nothing *)

CallType == [pc : {"idle", "facts", "active", "records", "commit", "mutate"},
             command : Command \cup {None}, own : BOOLEAN, rule : Rule]
TabletType == [view : {"ready", "busy", "uncertain", "error"}, pending : Command \cup {None}]

\* What the tables say stays as it is while they, the bodies, the arrivals and the
\* answers stay.
LEMMA StoreSame ==
    ASSUME IInv, UNCHANGED <<store, body, arrivals, answer>>
    PROVE  /\ BodyFacts' /\ ArrivalFacts' /\ LogFacts' /\ BookingFacts' /\ CatalogFacts'
           /\ ToldTheTruth' /\ NoLostUpdate'
<1> USE DEF IInv, store, arrivals
<1>1. BodyFacts' /\ CatalogFacts' /\ BookingFacts' /\ NoLostUpdate'
      BY DEF BodyFacts, CatalogFacts, BookingFacts, NoLostUpdate
<1>2. ArrivalFacts' /\ ToldTheTruth'
      BY DEF ArrivalFacts, ToldTheTruth, Carried
<1>3. LogFacts'
      BY DEF LogFacts, Of
<1> QED BY <1>1, <1>2, <1>3

\* A tablet keeps waiting for its command, or is free again.
LEMMA TabletStep ==
    ASSUME IInv, UNCHANGED <<store, standing, body, arrivals, call, answer>>,
           NEW t \in Tablet,
           \/ \E f \in {Free, Broken} : tablet' = [tablet EXCEPT ![t] = f]
           \/ tablet[t].view = "busy" /\ tablet' = [tablet EXCEPT ![t].view = "uncertain"]
    PROVE  IInv'
<1> USE DEF IInv
<1>1. tablet \in [Tablet -> TabletType]
      BY DEF TypeOK, TabletType
<1>2. /\ tablet' \in [Tablet -> TabletType]
      /\ \A o \in Tablet : o # t => tablet'[o] = tablet[o]
      /\ tablet'[t].pending \in {None, tablet[t].pending}
      /\ (tablet'[t].view \in {"ready", "error"}) <=> (tablet'[t].pending = None)
  <2>1. CASE \E f \in {Free, Broken} : tablet' = [tablet EXCEPT ![t] = f]
        BY <1>1, <2>1 DEF Free, Broken, TabletType
  <2>2. CASE tablet[t].view = "busy" /\ tablet' = [tablet EXCEPT ![t].view = "uncertain"]
    <3>1. tablet[t].pending # None
          BY <2>2 DEF TypeOK
    <3> QED BY <1>1, <2>2, <3>1 DEF TabletType
  <2> QED BY <2>1, <2>2
<1>3. TypeOK'
  <2>1. \A o \in Tablet : (tablet'[o].view \in {"ready", "error"}) <=> (tablet'[o].pending = None)
        BY <1>2 DEF TypeOK
  <2> QED BY <1>2, <2>1 DEF TypeOK, store, arrivals, TabletType
<1>4. CallFacts' /\ OneOwner'
      BY DEF CallFacts, OneOwner, arrivals
<1>5. TabletFacts'
      BY <1>2 DEF TabletFacts
<1> QED BY <1>3, <1>4, <1>5, StoreSame

LEMMA DisableStep ==
    ASSUME IInv, NEW t \in Tablet, Disable(t)
    PROVE  IInv'
<1> USE DEF IInv, Disable
<1>1. TypeOK'
      BY DEF TypeOK, store, arrivals
<1>2. CallFacts' /\ OneOwner' /\ TabletFacts'
      BY DEF CallFacts, OneOwner, TabletFacts, arrivals
<1> QED BY <1>1, <1>2, StoreSame

\* A command is drawn: it never arrived, so nothing was written for it.
LEMMA DrawStep ==
    ASSUME IInv, NEW t \in Tablet, NEW B \in Body, Drawable,
           body' = [body EXCEPT ![Fresh] = B], B.actor = t,
           B.kind = "create" => B.draft \in Draft,
           B.kind = "cancel" => /\ B.target \in Command /\ bookings[B.target] # None
                                /\ bookings[B.target].resource = B.resource,
           \/ UNCHANGED tablet
           \/ tablet' = [tablet EXCEPT ![t] = [view |-> "busy", pending |-> Fresh]],
           UNCHANGED <<store, standing, arrivals, call, answer>>
    PROVE  IInv'
<1> USE DEF IInv
<1>1. Fresh \in Command /\ body[Fresh] = None
      BY DEF Fresh, Drawable
<1>2. B # None
      BY NoneAssumption
<1> DEFINE k == Fresh
<1> HIDE DEF k
<1>3. /\ k \in Command /\ body[k] = None /\ body' = [body EXCEPT ![k] = B]
      /\ \/ UNCHANGED tablet
         \/ tablet' = [tablet EXCEPT ![t] = [view |-> "busy", pending |-> k]]
      BY <1>1 DEF k
<1>4. /\ body' \in [Command -> Body \cup {None}]
      /\ body'[k] = B /\ \A j \in Command : j # k => body'[j] = body[j]
  <2>1. body \in [Command -> Body \cup {None}]
        BY DEF TypeOK
  <2>2. body'[k] = B
        BY <1>3, <2>1
  <2>3. \A j \in Command : j # k => body'[j] = body[j]
        BY <1>3, <2>1
  <2>4. body' \in [Command -> Body \cup {None}]
        BY <1>3, <2>1
  <2> QED BY <2>2, <2>3, <2>4
<1>5. k \notin delivered /\ ~Carried(k)
      BY <1>3 DEF BodyFacts, ArrivalFacts
<1>6. /\ \A e \in log : e.command \in Command /\ e.command # k
      /\ \A e \in catalogLog : e.command \in Command /\ e.command # k
      BY <1>5 DEF Carried, TypeOK, Event, CatalogEvent
<1>7. TypeOK'
  <2>1. /\ tablet' \in [Tablet -> TabletType]
        /\ \A o \in Tablet : (tablet'[o].view \in {"ready", "error"}) <=> (tablet'[o].pending = None)
    <3>1. CASE UNCHANGED tablet
          BY <3>1 DEF TypeOK, TabletType
    <3>2. CASE tablet' = [tablet EXCEPT ![t] = [view |-> "busy", pending |-> k]]
      <4>1. tablet \in [Tablet -> TabletType] /\ k # None
            BY <1>3, NoneAssumption DEF TypeOK, TabletType
      <4>2. [view |-> "busy", pending |-> k] \in TabletType
            BY <1>3 DEF TabletType
      <4> QED BY <3>2, <4>1, <4>2 DEF TypeOK
    <3> QED BY <1>3, <3>1, <3>2
  <2> QED BY <1>4, <2>1 DEF TypeOK, store, arrivals, TabletType
<1>8. BodyFacts'
      BY <1>2, <1>4, <1>5 DEF BodyFacts, store, arrivals
<1>9. ArrivalFacts' /\ ToldTheTruth'
      BY DEF ArrivalFacts, ToldTheTruth, Carried, store, arrivals
<1>10. CallFacts' /\ OneOwner'
  <2>1. \A h \in Handler : call[h].pc # "idle" => call[h].command # k
        BY <1>5 DEF CallFacts
  <2>2. delivered \subseteq Command
        BY DEF TypeOK
  <2> QED BY <1>4, <2>1, <2>2 DEF CallFacts, OneOwner, arrivals
<1>11. LogFacts'
  <2>1. \A e \in log : body'[e.command] = body[e.command]
        BY <1>4, <1>6
  <2> QED BY <2>1 DEF LogFacts, Of, store
<1>12. BookingFacts'
      BY DEF BookingFacts, store
<1>13. CatalogFacts' /\ NoLostUpdate'
      BY <1>4, <1>6 DEF CatalogFacts, NoLostUpdate, store
<1>14. TabletFacts'
  <2>1. ASSUME NEW o \in Tablet, tablet'[o].pending # None
        PROVE  body'[tablet'[o].pending] # None /\ body'[tablet'[o].pending].actor = o
    <3>1. CASE tablet'[o] = tablet[o]
      <4>1. tablet[o].pending \in Command /\ tablet[o].pending # k
            BY <1>3, <2>1, <3>1 DEF TypeOK, TabletFacts
      <4> QED BY <1>4, <2>1, <3>1, <4>1 DEF TabletFacts
    <3>2. CASE tablet'[o] # tablet[o]
      <4>1. o = t /\ tablet'[o].pending = k
            BY <1>3, <3>2 DEF TypeOK
      <4> QED BY <1>2, <1>4, <4>1
    <3> QED BY <3>1, <3>2
  <2> QED BY <2>1 DEF TabletFacts
<1> QED BY <1>7, <1>8, <1>9, <1>10, <1>11, <1>12, <1>13, <1>14

-----------------------------------------------------------------------------
(* Requests *)

\* A request comes: the first one of its command, or a repetition.
LEMMA ServeStep ==
    ASSUME IInv, NEW h \in Handler, NEW k \in Command, Arrive(h, k) \/ Duplicate(h, k)
    PROVE  IInv'
<1> USE DEF IInv
<1>1. PICK own \in BOOLEAN :
          /\ Serve(h, k, own)
          /\ own => k \notin delivered /\ body[k] # None /\ delivered' = delivered \cup {k}
                    /\ duplicated' = duplicated
          /\ ~own => k \in delivered /\ delivered' = delivered
                     /\ duplicated' = duplicated \cup {k}
      BY DEF Arrive, Duplicate
<1>2. body[k] # None
      BY <1>1 DEF BodyFacts
<1>3. body[k] \in Body /\ catalog[body[k].resource] \in Rule
      BY <1>2 DEF TypeOK, Body
<1> DEFINE c == [pc |-> "facts", command |-> k, own |-> own,
                 rule |-> catalog[body[k].resource]]
<1>4. c \in CallType /\ call' = [call EXCEPT ![h] = c] /\ call[h] = Idle
      BY <1>1, <1>3 DEF CallType, Serve
<1>5. c.pc = "facts" /\ c.command = k /\ c.own = own /\ call[h].pc = "idle"
      BY <1>4 DEF Idle
<1> HIDE DEF c
<1>6. /\ call' \in [Handler -> CallType] /\ call'[h] = c
      /\ \A g \in Handler : g # h => call'[g] = call[g]
      BY <1>4 DEF TypeOK, CallType
<1>7. /\ UNCHANGED <<store, standing, body, answer, tablet>>
      /\ delivered \subseteq delivered' /\ delivered' \subseteq delivered \cup {k} /\ k \in delivered'
      /\ duplicated \subseteq duplicated'
      BY <1>1 DEF Serve
<1>8. TypeOK'
  <2>1. delivered' \in SUBSET Command /\ duplicated' \in SUBSET delivered'
        BY <1>1 DEF TypeOK
  <2> QED BY <1>6, <1>7, <2>1 DEF TypeOK, store, CallType
<1>9. BodyFacts'
      BY <1>2, <1>7 DEF BodyFacts, store
<1>10. ArrivalFacts' /\ ToldTheTruth'
      BY <1>7 DEF ArrivalFacts, ToldTheTruth, Carried, store
<1>11. CallFacts'
  <2>1. ASSUME NEW g \in Handler, call'[g].pc # "idle"
        PROVE  LET j == call'[g].command IN
               /\ j \in delivered'
               /\ IF call'[g].own THEN answer'[j] = "nothing" ELSE j \in duplicated'
               /\ call'[g].pc = "active" => body'[j].kind = "create"
               /\ call'[g].pc = "commit" => body'[j].kind \in {"create", "cancel"}
    <3>1. CASE g = h
          BY <1>1, <1>5, <1>6, <1>7, <3>1 DEF ArrivalFacts
    <3>2. CASE g # h
          BY <1>6, <1>7, <2>1, <3>2 DEF CallFacts
    <3> QED BY <3>1, <3>2
  <2> QED BY <2>1 DEF CallFacts
<1>12. OneOwner'
  <2>1. \A g \in Handler : g # h /\ call[g].pc # "idle" /\ own => call[g].command # k
        BY <1>1 DEF CallFacts
  <2> QED BY <1>5, <1>6, <2>1 DEF OneOwner
<1>13. LogFacts' /\ BookingFacts' /\ CatalogFacts' /\ NoLostUpdate' /\ TabletFacts'
      BY <1>7 DEF LogFacts, Of, BookingFacts, CatalogFacts, NoLostUpdate, TabletFacts, store
<1> QED BY <1>8, <1>9, <1>10, <1>11, <1>12, <1>13

\* A request goes on to its next read or to its transaction.
LEMMA GotoStep ==
    ASSUME IInv, NEW h \in Handler, NEW pc \in {"active", "records", "commit", "mutate"},
           call[h].pc # "idle", Goto(h, pc), UNCHANGED <<store, standing, body, arrivals, tablet>>,
           pc = "active" => Asked(h).kind = "create",
           pc = "commit" => Asked(h).kind \in {"create", "cancel"}
    PROVE  IInv'
<1> USE DEF IInv
<1>1. call \in [Handler -> CallType] /\ call' = [call EXCEPT ![h].pc = pc] /\ answer' = answer
      BY DEF Goto, TypeOK, CallType
<1>2. /\ call' \in [Handler -> CallType]
      /\ call'[h].pc = pc /\ call'[h].command = call[h].command /\ call'[h].own = call[h].own
      /\ \A g \in Handler : g # h => call'[g] = call[g]
      BY <1>1 DEF CallType
<1>3. TypeOK'
      BY <1>1, <1>2 DEF TypeOK, store, arrivals, CallType
<1>4. CallFacts'
  <2>1. ASSUME NEW g \in Handler, call'[g].pc # "idle"
        PROVE  LET j == call'[g].command IN
               /\ j \in delivered'
               /\ IF call'[g].own THEN answer'[j] = "nothing" ELSE j \in duplicated'
               /\ call'[g].pc = "active" => body'[j].kind = "create"
               /\ call'[g].pc = "commit" => body'[j].kind \in {"create", "cancel"}
    <3>1. CASE g = h
          BY <1>1, <1>2, <3>1 DEF CallFacts, Asked, arrivals
    <3>2. CASE g # h
          BY <1>1, <1>2, <2>1, <3>2 DEF CallFacts, arrivals
    <3> QED BY <3>1, <3>2
  <2> QED BY <2>1 DEF CallFacts
<1>5. OneOwner'
      BY <1>2 DEF OneOwner
<1>6. TabletFacts'
      BY DEF TabletFacts
<1> QED BY <1>1, <1>3, <1>4, <1>5, <1>6, StoreSame

\* A request ends with an answer, which only the thread of the first request gives.
LEMMA EndStep ==
    ASSUME IInv, NEW h \in Handler, NEW outcome \in {"done", "refused"},
           NEW k \in Command, call[h].command = k,
           call[h].pc # "idle", End(h, outcome),
           UNCHANGED <<body, arrivals>>,
           \A j \in Command : j # k => (Carried(j)' <=> Carried(j)),
           outcome = "done" => Carried(k)',
           outcome = "refused" => (Carried(k)' <=> Carried(k))
    PROVE  /\ call' \in [Handler -> CallType]
           /\ answer' \in [Command -> {"nothing", "done", "refused"}]
           /\ CallFacts' /\ OneOwner' /\ ArrivalFacts' /\ ToldTheTruth'
<1> USE DEF IInv
<1>1. /\ call \in [Handler -> CallType] /\ call' = [call EXCEPT ![h] = Idle]
      /\ Idle \in CallType /\ Idle.pc = "idle"
      BY RuleTypes DEF End, TypeOK, CallType, Idle
<1>2. /\ call' \in [Handler -> CallType] /\ call'[h].pc = "idle"
      /\ \A g \in Handler : g # h => call'[g] = call[g]
      BY <1>1
<1>3. /\ k \in delivered /\ delivered \subseteq Command /\ call[h].own \in BOOLEAN
      /\ call[h].own => answer[k] = "nothing"
      /\ ~call[h].own => k \in duplicated
      BY <1>1 DEF CallFacts, TypeOK, CallType
<1>4. /\ answer \in [Command -> {"nothing", "done", "refused"}]
      /\ answer' = IF call[h].own THEN [answer EXCEPT ![k] = outcome] ELSE answer
      BY DEF End, TypeOK
<1>5. /\ answer' \in [Command -> {"nothing", "done", "refused"}]
      /\ \A j \in Command : j # k => answer'[j] = answer[j]
      /\ answer'[k] = IF call[h].own THEN outcome ELSE answer[k]
      BY <1>3, <1>4
<1>6. \A g \in Handler : g # h /\ call[g].pc # "idle" /\ call[g].command = k /\ call[g].own
                         => ~call[h].own
      BY DEF OneOwner
<1>7. CallFacts'
  <2>1. ASSUME NEW g \in Handler, call'[g].pc # "idle"
        PROVE  LET j == call'[g].command IN
               /\ j \in delivered'
               /\ IF call'[g].own THEN answer'[j] = "nothing" ELSE j \in duplicated'
               /\ call'[g].pc = "active" => body'[j].kind = "create"
               /\ call'[g].pc = "commit" => body'[j].kind \in {"create", "cancel"}
        BY <1>2, <1>3, <1>5, <1>6, <2>1 DEF CallFacts, arrivals
  <2> QED BY <2>1 DEF CallFacts
<1>8. OneOwner'
      BY <1>2 DEF OneOwner
<1>9. ArrivalFacts'
      BY <1>3, <1>5 DEF ArrivalFacts, arrivals
<1>10. ToldTheTruth'
  <2>1. ASSUME NEW j \in Command
        PROVE  /\ answer'[j] = "done" => Carried(j)'
               /\ answer'[j] = "refused" /\ j \notin duplicated' => ~Carried(j)'
    <3>1. CASE j # k
          BY <1>5, <3>1 DEF ToldTheTruth, arrivals
    <3>2. CASE j = k /\ call[h].own
          BY <1>3, <1>5, <3>2 DEF ToldTheTruth, ArrivalFacts, arrivals
    <3>3. CASE j = k /\ ~call[h].own
          BY <1>3, <1>5, <3>3 DEF ToldTheTruth, arrivals
    <3> QED BY <1>3, <3>1, <3>2, <3>3
  <2> QED BY <2>1 DEF ToldTheTruth
<1> QED BY <1>2, <1>5, <1>7, <1>8, <1>9, <1>10

\* An answer without a change of the tables.
LEMMA AnswerStep ==
    ASSUME IInv, NEW h \in Handler, NEW outcome \in {"done", "refused"},
           call[h].pc # "idle", End(h, outcome),
           UNCHANGED <<store, standing, body, arrivals, tablet>>,
           outcome = "done" => Carried(call[h].command)
    PROVE  IInv'
<1> USE DEF IInv
<1>1. \A j : Carried(j)' <=> Carried(j)
      BY DEF Carried, store
<1> PICK k \in Command : call[h].command = k
    BY DEF CallFacts, TypeOK
<1>2. /\ call' \in [Handler -> CallType]
      /\ answer' \in [Command -> {"nothing", "done", "refused"}]
      /\ CallFacts' /\ OneOwner' /\ ArrivalFacts' /\ ToldTheTruth'
      BY <1>1, EndStep
<1>3. TypeOK'
      BY <1>2 DEF TypeOK, store, arrivals, CallType
<1>4. BodyFacts' /\ LogFacts' /\ BookingFacts' /\ CatalogFacts' /\ NoLostUpdate' /\ TabletFacts'
      BY DEF BodyFacts, LogFacts, Of, BookingFacts, CatalogFacts, NoLostUpdate, TabletFacts, store,
             arrivals
<1> QED BY <1>2, <1>3, <1>4

-----------------------------------------------------------------------------
(* The transactions *)

\* An event of a calendar is the next of its resource.
LEMMA EventStep ==
    ASSUME IInv, NEW k \in Command, body[k] # None, NEW b \in Command,
           NEW action \in {"created", "cancelled"}, Logged(k, action, b)
    PROVE  \E e \in Event :
               /\ e.command = k /\ e.action = action /\ e.actor = body[k].actor
               /\ e.resource = body[k].resource /\ e.booking = b
               /\ e.revision = calendar[e.resource] + 1
               /\ log' = log \cup {e} /\ IsFiniteSet(log')
               /\ calendar' \in [Resource -> Nat]
               /\ calendar'[e.resource] = e.revision
               /\ \A r \in Resource : r # e.resource => calendar'[r] = calendar[r]
               /\ \A r \in Resource : calendar'[r] = 1 + Cardinality(Of(r)')
<1> DEFINE r == body[k].resource
<1> DEFINE e == [command |-> k, action |-> action, actor |-> body[k].actor,
                 resource |-> r, booking |-> b, revision |-> calendar[r] + 1]
<1>1. /\ body[k] \in Body /\ calendar \in [Resource -> Nat] /\ log \subseteq Event
      BY DEF IInv, TypeOK
<1>2. r \in Resource /\ body[k].actor \in Tablet /\ calendar[r] + 1 \in Nat
      BY <1>1 DEF Body
<1>3. /\ e \in Event
      /\ e.command = k /\ e.action = action /\ e.actor = body[k].actor
      /\ e.resource = r /\ e.booking = b /\ e.revision = calendar[r] + 1
      BY <1>2 DEF Event
<1>4. log' = log \cup {e} /\ calendar' = [calendar EXCEPT ![r] = @ + 1]
      BY DEF Logged
<1> HIDE DEF e, r
<1>5. /\ calendar' \in [Resource -> Nat] /\ calendar'[r] = calendar[r] + 1
      /\ \A q \in Resource : q # r => calendar'[q] = calendar[q]
      BY <1>1, <1>2, <1>4
<1>6. IsFiniteSet(log) /\ IsFiniteSet(log')
      BY <1>4, FS_AddElement DEF IInv, LogFacts
<1>7. ASSUME NEW q \in Resource
      PROVE  calendar'[q] = 1 + Cardinality(Of(q)')
  <2>1. calendar[q] = 1 + Cardinality(Of(q)) /\ IsFiniteSet(Of(q)) /\ Cardinality(Of(q)) \in Nat
    <3>1. Of(q) \in SUBSET log
          BY DEF Of
    <3>2. IsFiniteSet(Of(q))
          BY <1>6, <3>1, FS_Subset
    <3> QED BY <3>2, FS_CardinalityType DEF IInv, LogFacts
  <2>2. CASE q = r
    <3>1. e \notin Of(q)
      <4>1. \A f \in Of(q) : f.revision <= calendar[q]
            BY DEF IInv, LogFacts, Of
      <4>2. calendar[q] \in Nat
            BY <1>1
      <4> QED BY <1>3, <2>2, <4>1, <4>2
    <3>2. Of(q)' = Of(q) \cup {e}
          BY <1>3, <1>4, <2>2 DEF Of
    <3>3. Cardinality(Of(q)') = Cardinality(Of(q)) + 1
          BY <2>1, <3>1, <3>2, FS_AddElement
    <3> QED BY <1>5, <2>1, <2>2, <3>3
  <2>3. CASE q # r
    <3>1. Of(q)' = Of(q)
          BY <1>3, <1>4, <2>3 DEF Of
    <3> QED BY <1>5, <2>1, <2>3, <3>1
  <2> QED BY <2>2, <2>3
<1> QED BY <1>3, <1>4, <1>5, <1>6, <1>7 DEF r

\* A reservation that is made, or cancelled, with its event.
LEMMA WriteStep ==
    ASSUME IInv, NEW h \in Handler, NEW k \in Command, call[h].command = k,
           call[h].pc = "commit", ~Replayed(k), End(h, "done"),
           NEW b \in Command, NEW action \in {"created", "cancelled"}, Logged(k, action, b),
           body[k].revision = calendar[body[k].resource],
           UNCHANGED <<catalog, catalogRevision, catalogLog, standing, body, arrivals, tablet>>,
           NEW v \in Booking, bookings' = [bookings EXCEPT ![b] = v],
           v.resource = body[k].resource,
           \/ action = "created" /\ b = k
           \/ /\ action = "cancelled" /\ bookings[b] # None /\ ~bookings[b].cancelled
              /\ v.cancelled /\ bookings[b].resource = body[k].resource
    PROVE  IInv'
<1> USE DEF IInv
<1>1. body[k] # None /\ body[k] \in Body
      BY DEF CallFacts, BodyFacts, TypeOK
<1>2. PICK e \in Event :
               /\ e.command = k /\ e.action = action /\ e.actor = body[k].actor
               /\ e.resource = body[k].resource /\ e.booking = b
               /\ e.revision = calendar[e.resource] + 1
               /\ log' = log \cup {e} /\ IsFiniteSet(log')
               /\ calendar' \in [Resource -> Nat]
               /\ calendar'[e.resource] = e.revision
               /\ \A r \in Resource : r # e.resource => calendar'[r] = calendar[r]
               /\ \A r \in Resource : calendar'[r] = 1 + Cardinality(Of(r)')
      BY <1>1, EventStep
<1>3. v # None /\ bookings \in [Command -> Booking \cup {None}] /\ log \subseteq Event
      BY NoneAssumption DEF TypeOK
<1>4. /\ bookings' \in [Command -> Booking \cup {None}]
      /\ bookings'[b] = v /\ \A j \in Command : j # b => bookings'[j] = bookings[j]
      BY <1>3
<1>5. \A f \in log : f.command # k
      BY DEF Replayed
<1>6. \A f \in log : /\ f \in Event /\ f.command \in Command /\ f.booking \in Command
                     /\ f.resource \in Resource /\ f.revision \in Nat
                     /\ f.action \in {"created", "cancelled"}
      BY <1>3 DEF Event
<1>7. e.resource \in Resource /\ calendar[e.resource] \in Nat
      BY <1>2 DEF Event, TypeOK
<1>8. /\ call' \in [Handler -> CallType]
      /\ answer' \in [Command -> {"nothing", "done", "refused"}]
      /\ CallFacts' /\ OneOwner' /\ ArrivalFacts' /\ ToldTheTruth'
  <2>1. /\ \A j \in Command : j # k => (Carried(j)' <=> Carried(j))
        /\ Carried(k)'
        BY <1>2 DEF Carried
  <2> QED BY <2>1, EndStep
<1>9. TypeOK'
      BY <1>2, <1>4, <1>8 DEF TypeOK, arrivals, CallType
<1>10. BodyFacts'
  <2>1. ASSUME NEW j \in Command, body[j] # None, body[j].kind = "cancel"
        PROVE  /\ body[j].target \in Command /\ bookings'[body[j].target] # None
               /\ bookings'[body[j].target].resource = body[j].resource
    <3>1. /\ body[j].target \in Command /\ bookings[body[j].target] # None
          /\ bookings[body[j].target].resource = body[j].resource
          BY <2>1 DEF BodyFacts
    <3>2. CASE body[j].target # b
          BY <1>4, <3>1, <3>2
    <3>3. CASE body[j].target = b
      <4>1. bookings[b].resource = body[k].resource
        <5>1. CASE action = "cancelled"
              BY <5>1
        <5>2. CASE action = "created" /\ b = k
          <6>1. \E f \in log : f.booking = k /\ f.action = "created"
                BY <3>1, <3>3, <5>2 DEF BookingFacts
          <6> QED BY <1>5, <6>1 DEF LogFacts
        <5> QED BY <5>1, <5>2
      <4> QED BY <1>3, <1>4, <3>1, <3>3, <4>1
    <3> QED BY <3>2, <3>3
  <2> QED BY <2>1 DEF BodyFacts, arrivals
<1>11. \A f \in log : f.booking = b /\ f.action = action => FALSE
  <2>1. CASE action = "created" /\ b = k
        BY <1>5, <2>1 DEF LogFacts
  <2>2. CASE action = "cancelled" /\ ~bookings[b].cancelled
        BY <2>2 DEF BookingFacts
  <2> QED BY <2>1, <2>2
<1>12. LogFacts'
  <2>1. ASSUME NEW f \in log'
        PROVE  /\ body'[f.command] # None /\ f.actor = body'[f.command].actor
               /\ f.revision <= calendar'[f.resource]
               /\ bookings'[f.booking] # None /\ bookings'[f.booking].resource = f.resource
               /\ f.action = "created" => f.booking = f.command
    <3>1. CASE f = e
          BY <1>1, <1>2, <1>3, <1>4, <1>7, <3>1
    <3>2. CASE f \in log
      <4>1. /\ body[f.command] # None /\ f.actor = body[f.command].actor
            /\ f.revision <= calendar[f.resource]
            /\ bookings[f.booking] # None /\ bookings[f.booking].resource = f.resource
            /\ f.action = "created" => f.booking = f.command
            BY <3>2 DEF LogFacts
      <4>2. f.revision <= calendar'[f.resource]
            BY <1>2, <1>6, <1>7, <3>2, <4>1
      <4>3. bookings'[f.booking] # None /\ bookings'[f.booking].resource = f.resource
        <5>1. CASE f.booking # b
              BY <1>4, <1>6, <3>2, <4>1, <5>1
        <5>2. CASE f.booking = b /\ action = "cancelled"
              BY <1>3, <1>4, <4>1, <5>2
        <5>3. CASE f.booking = b /\ action = "created" /\ b = k
          <6>1. \E g \in log : g.booking = k /\ g.action = "created"
                BY <4>1, <5>3 DEF BookingFacts
          <6> QED BY <1>11, <5>3, <6>1
        <5> QED BY <5>1, <5>2, <5>3
      <4> QED BY <4>1, <4>2, <4>3
    <3> QED BY <1>2, <2>1, <3>1, <3>2
  <2>2. ASSUME NEW f \in log', NEW g \in log'
        PROVE  /\ f.command = g.command => f = g
               /\ f.resource = g.resource /\ f.revision = g.revision => f = g
               /\ f.booking = g.booking /\ f.action = g.action => f = g
    <3>1. \A d \in log : /\ d.command # e.command
                         /\ ~(d.resource = e.resource /\ d.revision = e.revision)
                         /\ ~(d.booking = e.booking /\ d.action = e.action)
      <4>1. \A d \in log : d.revision <= calendar[d.resource]
            BY DEF LogFacts
      <4> QED BY <1>2, <1>5, <1>6, <1>7, <1>11, <4>1
    <3>2. CASE f \in log /\ g \in log
          BY <3>2 DEF LogFacts
    <3> QED BY <1>2, <3>1, <3>2
  <2>3. \A r \in Resource : calendar'[r] = 1 + Cardinality(Of(r)')
        BY <1>2
  <2> QED BY <1>2, <2>1, <2>2, <2>3 DEF LogFacts
<1>13. BookingFacts'
  <2>1. ASSUME NEW j \in Command
        PROVE  (bookings'[j] # None) <=> \E f \in log' : f.booking = j /\ f.action = "created"
    <3>1. (bookings[j] # None) <=> \E f \in log : f.booking = j /\ f.action = "created"
          BY DEF BookingFacts
    <3>2. CASE j # b
          BY <1>2, <1>4, <3>1, <3>2
    <3>3. CASE j = b /\ action = "created"
          BY <1>2, <1>3, <1>4, <3>3
    <3>4. CASE j = b /\ action = "cancelled" /\ bookings[b] # None
          BY <1>2, <1>3, <1>4, <3>1, <3>4
    <3> QED BY <3>2, <3>3, <3>4
  <2>2. ASSUME NEW f \in log', f.action = "cancelled"
        PROVE  /\ bookings'[f.booking].cancelled
               /\ \E g \in log' : g.booking = f.booking /\ g.action = "created"
                                /\ g.revision < f.revision
    <3>1. CASE f \in log
      <4>1. /\ bookings[f.booking].cancelled
            /\ \E g \in log : g.booking = f.booking /\ g.action = "created"
                                /\ g.revision < f.revision
            BY <2>2, <3>1 DEF BookingFacts
      <4>2. f.booking # b
        <5>1. CASE action = "cancelled"
              BY <1>11, <2>2, <3>1, <5>1
        <5>2. CASE action = "created"
              BY <1>11, <4>1, <5>2
        <5> QED BY <5>1, <5>2
      <4> QED BY <1>2, <1>4, <1>6, <3>1, <4>1, <4>2
    <3>2. CASE f = e
      <4>1. action = "cancelled" /\ bookings[b] # None /\ v.cancelled
            BY <1>2, <2>2, <3>2
      <4>2. PICK g \in log : g.booking = b /\ g.action = "created"
            BY <4>1 DEF BookingFacts
      <4>3. g.revision <= calendar[g.resource] /\ g.resource = bookings[b].resource
            BY <4>2 DEF LogFacts
      <4>4. g.resource = e.resource
            BY <1>2, <4>1, <4>3
      <4>5. g.revision < e.revision
            BY <1>2, <1>6, <1>7, <4>3, <4>4
      <4> QED BY <1>2, <1>4, <3>2, <4>1, <4>2, <4>5
    <3> QED BY <1>2, <2>2, <3>1, <3>2
  <2> QED BY <2>1, <2>2 DEF BookingFacts
<1>14. TabletFacts' /\ CatalogFacts'
      BY DEF TabletFacts, CatalogFacts
<1>15. NoLostUpdate'
      BY <1>2 DEF NoLostUpdate
<1> QED BY <1>8, <1>9, <1>10, <1>12, <1>13, <1>14, <1>15

LEMMA ReserveStep ==
    ASSUME IInv, NEW h \in Handler, Reserve(h)
    PROVE  IInv'
<1> USE DEF IInv
<1> PICK k \in Command : call[h].command = k
    BY DEF Reserve, Serving, CallFacts, TypeOK
<1>1. /\ call[h].pc = "commit" /\ Asked(h) = body[k] /\ body[k].kind = "create" /\ ~Replayed(k)
      /\ UNCHANGED <<standing, body, arrivals, tablet>>
      BY DEF Reserve, Serving, Asked
<1>2. CASE Refuse(h)
      BY <1>1, <1>2, AnswerStep DEF Refuse
<1>3. CASE ~Refuse(h)
  <2> DEFINE v == [resource |-> body[k].resource, owner |-> body[k].actor,
                   occurrences |-> Occurrences(body[k].draft), units |-> body[k].draft.units,
                   cancelled |-> FALSE, under |-> call[h].rule.capacity]
  <2>1. /\ Resolvable(body[k].draft) /\ body[k].revision = calendar[body[k].resource]
        /\ End(h, "done") /\ Logged(k, "created", k)
        /\ bookings' = [bookings EXCEPT ![k] = v]
        /\ UNCHANGED <<catalog, catalogRevision, catalogLog>>
        BY <1>1, <1>3 DEF Reserve
  <2>2. body[k] # None /\ body[k] \in Body /\ body[k].draft \in Draft
        BY <1>1 DEF CallFacts, BodyFacts, TypeOK
  <2>3. /\ body[k].resource \in Resource /\ body[k].actor \in Tablet
        /\ body[k].draft.units \in Nat /\ call[h].rule.capacity \in Capacities
        BY <2>2, ReservationsAssumption DEF Body, TypeOK, Rule
  <2>4. Occurrences(body[k].draft) \in SUBSET (Nat \X Nat)
        BY <2>1, <2>2, OccurrencesType
  <2>5. v \in Booking /\ v.resource = body[k].resource
        BY <2>3, <2>4 DEF Booking
  <2> HIDE DEF v
  <2> QED BY <1>1, <2>1, <2>5, WriteStep
<1> QED BY <1>2, <1>3

LEMMA WithdrawStep ==
    ASSUME IInv, NEW h \in Handler, Withdraw(h)
    PROVE  IInv'
<1> USE DEF IInv
<1> PICK k \in Command : call[h].command = k
    BY DEF Withdraw, Serving, CallFacts, TypeOK
<1>1. /\ call[h].pc = "commit" /\ Asked(h) = body[k] /\ body[k].kind = "cancel" /\ ~Replayed(k)
      /\ UNCHANGED <<standing, body, arrivals, tablet>>
      BY DEF Withdraw, Serving, Asked
<1>2. CASE Refuse(h)
      BY <1>1, <1>2, AnswerStep DEF Refuse
<1>3. CASE ~Refuse(h)
  <2> PICK b \in Command : body[k].target = b
      BY <1>1 DEF CallFacts, BodyFacts
  <2>1. /\ Cancellable(h, b) /\ End(h, "done") /\ Logged(k, "cancelled", b)
        /\ bookings' = [bookings EXCEPT ![b].cancelled = TRUE]
        /\ UNCHANGED <<catalog, catalogRevision, catalogLog>>
        BY <1>1, <1>3 DEF Withdraw
  <2>2. bookings[b] # None /\ bookings[b].resource = body[k].resource
        BY <1>1 DEF CallFacts, BodyFacts
  <2>3. /\ body[k].revision = calendar[body[k].resource] /\ ~bookings[b].cancelled
        BY <1>1, <2>1 DEF Cancellable
  <2> DEFINE v == [bookings[b] EXCEPT !.cancelled = TRUE]
  <2>4. bookings[b] \in Booking /\ bookings \in [Command -> Booking \cup {None}]
        BY <2>2 DEF TypeOK
  <2>5. v \in Booking /\ v.resource = body[k].resource /\ v.cancelled
        BY <2>2, <2>4 DEF Booking
  <2>6. bookings' = [bookings EXCEPT ![b] = v]
        BY <2>1, <2>4
  <2> HIDE DEF v
  <2>7. UNCHANGED <<catalog, catalogRevision, catalogLog, standing, body, arrivals, tablet>>
        BY <1>1, <2>1
  <2>8. End(h, "done") /\ Logged(k, "cancelled", b)
        BY <2>1
  <2> QED BY <1>1, <2>2, <2>3, <2>5, <2>6, <2>7, <2>8, WriteStep
<1> QED BY <1>2, <1>3

\* A change of the catalog, with its event.
LEMMA ChangeStep ==
    ASSUME IInv, NEW h \in Handler, Change(h)
    PROVE  IInv'
<1> USE DEF IInv
<1> PICK k \in Command : call[h].command = k
    BY DEF Change, Serving, CallFacts, TypeOK
<1> DEFINE r == body[k].resource
<1> DEFINE e == [command |-> k, actor |-> body[k].actor, resource |-> r,
                 resourceRevision |-> catalog[r].revision + 1, revision |-> catalogRevision + 1]
<1> DEFINE v == [revision |-> catalog[r].revision + 1, capacity |-> body[k].capacity,
                 active |-> body[k].kind # "deactivate"]
<1>1. /\ call[h].pc = "mutate" /\ Asked(h) = body[k]
      /\ UNCHANGED <<standing, body, arrivals, tablet>>
      BY DEF Change, Serving, Asked
<1>2. /\ body[k] # None /\ body[k] \in Body /\ r \in Resource /\ catalog[r] \in Rule
      /\ body[k].actor \in Tablet /\ body[k].capacity \in Capacities
      BY <1>1 DEF CallFacts, BodyFacts, TypeOK, Body
<1>3. CASE Refuse(h)
      BY <1>1, <1>3, AnswerStep DEF Refuse
<1>4. ASSUME UNCHANGED store, NEW o \in {"done", "refused"}, End(h, o),
             \E f \in catalogLog : f.command = k
      PROVE  IInv'
  <2>1. Carried(k)
        BY <1>4 DEF Carried
  <2> QED BY <1>1, <1>4, <2>1, AnswerStep
<1>5. CASE /\ Seen(h) /\ End(h, "done")
           /\ catalog' = [catalog EXCEPT ![r] = v] /\ catalogLog' = catalogLog \cup {e}
           /\ catalogRevision' = catalogRevision + 1
           /\ UNCHANGED <<calendar, bookings, log>>
  <2>1. /\ e \in CatalogEvent /\ e.command = k /\ e.revision = catalogRevision + 1
        /\ v \in Rule /\ catalogRevision' \in Nat
        BY <1>2, <1>5 DEF CatalogEvent, Rule, TypeOK
  <2> HIDE DEF e, v, r
  <2>2. /\ \A j \in Command : j # k => (Carried(j)' <=> Carried(j))
        /\ Carried(k)'
        BY <1>5, <2>1 DEF Carried
  <2>3. /\ call' \in [Handler -> CallType]
        /\ answer' \in [Command -> {"nothing", "done", "refused"}]
        /\ CallFacts' /\ OneOwner' /\ ArrivalFacts' /\ ToldTheTruth'
        BY <1>1, <1>5, <2>2, EndStep
  <2>4. catalog' \in [Resource -> Rule] /\ catalogLog' \subseteq CatalogEvent
        BY <1>2, <1>5, <2>1 DEF TypeOK
  <2>5. TypeOK'
        BY <1>1, <1>5, <2>1, <2>3, <2>4 DEF TypeOK, arrivals, CallType
  <2>6. BodyFacts' /\ LogFacts' /\ BookingFacts' /\ TabletFacts'
        BY <1>1, <1>5 DEF BodyFacts, LogFacts, Of, BookingFacts, TabletFacts, arrivals
  <2>7. CatalogFacts'
        BY <1>1, <1>2, <1>5, <2>1 DEF CatalogFacts
  <2>8. NoLostUpdate'
        BY <1>1, <1>5, <2>1 DEF NoLostUpdate, Seen
  <2> QED BY <2>3, <2>5, <2>6, <2>7, <2>8
<1>6. \/ Refuse(h)
      \/ \E o \in {"done", "refused"} :
            UNCHANGED store /\ End(h, o) /\ \E f \in catalogLog : f.command = k
      \/ /\ Seen(h) /\ End(h, "done")
         /\ catalog' = [catalog EXCEPT ![r] = v] /\ catalogLog' = catalogLog \cup {e}
         /\ catalogRevision' = catalogRevision + 1
         /\ UNCHANGED <<calendar, bookings, log>>
      BY <1>1 DEF Change
<1> QED BY <1>3, <1>4, <1>5, <1>6

LEMMA ServerSteps ==
    ASSUME IInv, NEW h \in Handler, ServerStep(h)
    PROVE  IInv'
<1>1. CASE Facts(h)
      BY <1>1, AnswerStep, GotoStep DEF Facts, Refuse, Serving
<1>2. CASE ActiveCheck(h)
  <2>1. Asked(h).kind = "create" /\ call[h].pc # "idle"
        BY <1>2 DEF ActiveCheck, Serving, Asked, IInv, CallFacts
  <2> QED BY <1>2, <2>1, AnswerStep, GotoStep DEF ActiveCheck, Refuse
<1>3. CASE Records(h)
      BY <1>3, AnswerStep, GotoStep DEF Records, Refuse, Serving
<1>4. CASE Replay(h)
  <2>1. Carried(call[h].command)
        BY <1>4 DEF Replay, Replayed, Carried
  <2> QED BY <1>4, <2>1, AnswerStep DEF Replay, Serving
<1> QED BY <1>1, <1>2, <1>3, <1>4, ReserveStep, WithdrawStep, ChangeStep DEF ServerStep

LEMMA TabletSteps ==
    ASSUME IInv, NEW t \in Tablet,
           \/ Timeout(t) \/ Accept(t) \/ Retire(t) \/ Reconcile(t) \/ Disable(t)
           \/ \E r \in Resource, d \in Draft : Create(t, r, d)
           \/ \E b \in Command : Cancel(t, b)
           \/ \E r \in Resource, c \in Capacities,
                kind \in {"add", "update", "deactivate"} : Administer(t, r, kind, c)
    PROVE  IInv'
<1> USE DEF IInv
<1>1. CASE Timeout(t) \/ Accept(t) \/ Retire(t) \/ Reconcile(t)
      BY <1>1, TabletStep DEF Timeout, Accept, Retire, Reconcile
<1>2. ASSUME NEW r \in Resource, NEW kind \in {"create", "cancel"},
             NEW d \in Draft \cup {None}, NEW b \in Command \cup {None}, Mutate(t, r, kind, d, b),
             kind = "create" => d \in Draft,
             kind = "cancel" => b \in Command /\ bookings[b] # None /\ bookings[b].resource = r
      PROVE  IInv'
  <2> DEFINE B == [kind |-> kind, actor |-> t, resource |-> r, known |-> catalog[r].revision,
                   members |-> standing, revision |-> calendar[r], catalogRevision |-> 0,
                   capacity |-> catalog[r].capacity, draft |-> d, target |-> b]
  <2>1. /\ catalog[r].revision \in Nat /\ catalog[r].capacity \in Capacities
        /\ calendar[r] \in Nat /\ standing \in SUBSET Tablet
        BY DEF TypeOK, Rule
  <2>2. /\ B \in Body /\ B.actor = t /\ B.kind = kind /\ B.draft = d /\ B.target = b
        /\ B.resource = r
        BY <2>1 DEF Body
  <2>3. /\ Drawable /\ body' = [body EXCEPT ![Fresh] = B]
        /\ tablet' = [tablet EXCEPT ![t] = [view |-> "busy", pending |-> Fresh]]
        /\ UNCHANGED <<store, standing, arrivals, call, answer>>
        BY <1>2 DEF Mutate
  <2> HIDE DEF B
  <2> QED BY <1>2, <2>2, <2>3, DrawStep
<1>3. ASSUME NEW r \in Resource, NEW d \in Draft, Create(t, r, d)
      PROVE  IInv'
      BY <1>2, <1>3 DEF Create
<1>4. ASSUME NEW b \in Command, Cancel(t, b)
      PROVE  IInv'
  <2>1. bookings[b] # None /\ bookings[b].resource \in Resource
        BY <1>4 DEF Cancel, TypeOK, Booking
  <2> QED BY <1>2, <1>4, <2>1 DEF Cancel
<1>5. ASSUME NEW r \in Resource, NEW c \in Capacities,
             NEW kind \in {"add", "update", "deactivate"}, Administer(t, r, kind, c)
      PROVE  IInv'
  <2> DEFINE B == [kind |-> kind, actor |-> t, resource |-> r, known |-> catalog[r].revision,
                   members |-> standing, revision |-> 0, catalogRevision |-> catalogRevision,
                   capacity |-> c, draft |-> None, target |-> None]
  <2>1. /\ catalog[r].revision \in Nat /\ catalogRevision \in Nat /\ standing \in SUBSET Tablet
        BY DEF TypeOK, Rule
  <2>2. B \in Body /\ B.actor = t /\ B.kind = kind
        BY <2>1 DEF Body
  <2>3. /\ Drawable /\ body' = [body EXCEPT ![Fresh] = B] /\ UNCHANGED tablet
        /\ UNCHANGED <<store, standing, arrivals, call, answer>>
        BY <1>5 DEF Administer
  <2> HIDE DEF B
  <2> QED BY <1>5, <2>2, <2>3, DrawStep
<1> QED BY <1>1, <1>3, <1>4, <1>5, DisableStep

-----------------------------------------------------------------------------
(* The invariant *)

LEMMA InvariantInit == Init => IInv
<1> SUFFICES ASSUME Init PROVE IInv
    OBVIOUS
<1> USE DEF Init
<1>1. PICK c \in Capacities, more \in SUBSET (Resource \ {Default}), t \in Tablet \ Admin,
           d \in Draft :
         /\ Resolvable(d)
         /\ catalog = Grown(c, more) /\ catalogRevision = c + Cardinality(more)
         /\ body = [k \in Command |-> IF k = Earlier
                      THEN [kind |-> "create", actor |-> t, resource |-> Default, known |-> c,
                            members |-> Tablet, revision |-> 1, catalogRevision |-> 0,
                            capacity |-> c, draft |-> d, target |-> None]
                      ELSE None]
         /\ bookings = [k \in Command |-> IF k = Earlier
                          THEN [resource |-> Default, owner |-> t, units |-> d.units,
                                occurrences |-> Occurrences(d), cancelled |-> FALSE,
                                under |-> c]
                          ELSE None]
         /\ log = {[command |-> Earlier, action |-> "created", actor |-> t,
                    resource |-> Default, booking |-> Earlier, revision |-> 2]}
      OBVIOUS
<1> DEFINE B == [kind |-> "create", actor |-> t, resource |-> Default, known |-> c,
                 members |-> Tablet, revision |-> 1, catalogRevision |-> 0,
                 capacity |-> c, draft |-> d, target |-> None]
<1> DEFINE v == [resource |-> Default, owner |-> t, units |-> d.units,
                 occurrences |-> Occurrences(d), cancelled |-> FALSE, under |-> c]
<1> DEFINE e == [command |-> Earlier, action |-> "created", actor |-> t,
                 resource |-> Default, booking |-> Earlier, revision |-> 2]
<1>2. Earlier \in Command /\ Default \in Resource /\ c \in Nat /\ t \in Tablet
      BY ReservationsAssumption DEF Earlier
<1>3. B \in Body /\ B.kind = "create" /\ B.draft \in Draft /\ B.revision = 1 /\ B.actor = t
      BY <1>2 DEF Body
<1>4. v \in Booking /\ v.resource = Default
  <2>1. Occurrences(d) \in SUBSET (Nat \X Nat) /\ d.units \in Nat
        BY <1>1, OccurrencesType, ReservationsAssumption
  <2> QED BY <1>2, <2>1 DEF Booking
<1>5. /\ e \in Event /\ e.command = Earlier /\ e.action = "created" /\ e.actor = t
      /\ e.resource = Default /\ e.booking = Earlier /\ e.revision = 2
      BY <1>2 DEF Event
<1>6. /\ log = {e} /\ body = [k \in Command |-> IF k = Earlier THEN B ELSE None]
      /\ bookings = [k \in Command |-> IF k = Earlier THEN v ELSE None]
      BY <1>1
<1> HIDE DEF B, v, e
<1>7. B # None /\ v # None
      BY <1>3, <1>4, NoneAssumption
<1>8. TypeOK
  <2>1. catalog \in [Resource -> Rule]
    <3>1. /\ [revision |-> c, capacity |-> c, active |-> TRUE] \in Rule
          /\ [revision |-> 1, capacity |-> Max(Capacities), active |-> TRUE] \in Rule
          /\ NoRule \in Rule
          BY <1>2, RuleTypes DEF Rule
    <3> QED BY <1>1, <3>1 DEF Grown
  <2>2. catalogRevision \in Nat
    <3>1. IsFiniteSet(Resource) /\ more \in SUBSET Resource
          BY ReservationsAssumption
    <3>2. IsFiniteSet(more)
          BY <3>1, FS_Subset
    <3>3. Cardinality(more) \in Nat
          BY <3>2, FS_CardinalityType
    <3> QED BY <1>1, <1>2, <3>3
  <2>3. call \in [Handler -> CallType]
        BY RuleTypes DEF CallType
  <2>4. tablet \in [Tablet -> TabletType]
        BY DEF TabletType
  <2>5. body \in [Command -> Body \cup {None}] /\ bookings \in [Command -> Booking \cup {None}]
        BY <1>3, <1>4, <1>6
  <2>6. calendar \in [Resource -> Nat] /\ log \subseteq Event /\ catalogLog \subseteq CatalogEvent
        BY <1>5, <1>6
  <2>7. delivered \in SUBSET Command /\ duplicated \in SUBSET delivered
        /\ answer \in [Command -> {"nothing", "done", "refused"}]
        BY <1>2
  <2>8. \A o \in Tablet : (tablet[o].view \in {"ready", "error"}) <=> (tablet[o].pending = None)
        OBVIOUS
  <2>9. standing \in SUBSET Tablet
        OBVIOUS
  <2> HIDE DEF Init
  <2> QED BY <2>1, <2>2, <2>3, <2>4, <2>5, <2>6, <2>7, <2>8, <2>9 DEF TypeOK, CallType, TabletType
<1>9. BodyFacts
      BY <1>2, <1>3, <1>6, <1>7 DEF BodyFacts
<1>10. ArrivalFacts /\ ToldTheTruth
      BY <1>2, <1>5, <1>6 DEF ArrivalFacts, ToldTheTruth, Carried
<1>11. CallFacts /\ OneOwner
      BY DEF CallFacts, OneOwner, Idle
<1>12. LogFacts
  <2>1. IsFiniteSet(log) /\ Cardinality({e}) = 1 /\ Cardinality({}) = 0
        BY <1>6, FS_Singleton, FS_EmptySet
  <2>2. ASSUME NEW r \in Resource
        PROVE  calendar[r] = 1 + Cardinality(Of(r))
    <3>1. CASE r = Default
      <4>1. Of(r) = {e}
            BY <1>5, <1>6, <3>1 DEF Of
      <4> QED BY <2>1, <3>1, <4>1
    <3>2. CASE r # Default
      <4>1. Of(r) = {}
            BY <1>5, <1>6, <3>2 DEF Of
      <4> QED BY <2>1, <3>2, <4>1
    <3> QED BY <3>1, <3>2
  <2>3. calendar[Default] = 2
        BY <1>2
  <2> HIDE DEF Init
  <2>4. body[Earlier] = B /\ bookings[Earlier] = v
        BY <1>2, <1>6
  <2>5. /\ body[e.command] # None /\ e.actor = body[e.command].actor
        /\ e.revision <= calendar[e.resource]
        /\ bookings[e.booking] # None /\ bookings[e.booking].resource = e.resource
        /\ e.action = "created" => e.booking = e.command
        BY <1>3, <1>4, <1>5, <1>7, <2>3, <2>4
  <2> QED BY <1>6, <2>1, <2>2, <2>5 DEF LogFacts
<1>13. BookingFacts
      BY <1>2, <1>5, <1>6, <1>7 DEF BookingFacts
<1>14. TabletFacts /\ CatalogFacts
      BY DEF TabletFacts, CatalogFacts
<1>15. NoLostUpdate
      BY <1>2, <1>3, <1>5, <1>6 DEF NoLostUpdate
<1> QED BY <1>8, <1>9, <1>10, <1>11, <1>12, <1>13, <1>14, <1>15 DEF IInv

LEMMA InvariantStep ==
    ASSUME IInv, [Next]_vars
    PROVE  IInv'
<1>1. CASE UNCHANGED vars
  <2>1. UNCHANGED <<store, standing, body, arrivals, call, answer, tablet>>
        BY <1>1 DEF vars
  <2>2. TypeOK'
        BY <2>1 DEF IInv, TypeOK, store, arrivals
  <2>3. CallFacts' /\ OneOwner' /\ TabletFacts'
        BY <2>1 DEF IInv, CallFacts, OneOwner, TabletFacts, arrivals
  <2> QED BY <2>1, <2>2, <2>3, StoreSame DEF IInv
<1>2. CASE Next
      BY <1>2, TabletSteps, ServerSteps, ServeStep DEF Next
<1> QED BY <1>1, <1>2

\* Every state the reservations reach satisfies the inductive invariant.
THEOREM ReservationInvariant == Spec => []IInv
<1>1. IInv /\ [Next]_vars => IInv'
      BY InvariantStep
<1> QED BY <1>1, InvariantInit, PTL DEF Spec

\* The tables, the threads and the tablets have their types, and a tablet is ready
\* or in error exactly while it waits for no command.
THEOREM ReservationTypeCorrect == Spec => []TypeOK
<1>1. IInv => TypeOK
      BY DEF IInv
<1> QED BY <1>1, ReservationInvariant, PTL

\* _verified accepts the tables of every reachable state: the calendar's revision counts
\* its events, commands and revisions are not used twice, and every reservation has one
\* creation and at most one cancellation after it.
THEOREM TablesVerify == Spec => []HistoryVerifies
<1>1. IInv => HistoryVerifies
  <2> SUFFICES ASSUME IInv PROVE HistoryVerifies
      OBVIOUS
  <2>1. \A r \in Resource : calendar[r] = 1 + Cardinality({e \in log : e.resource = r})
        BY DEF IInv, LogFacts, Of
  <2>2. \A e, f \in log : e # f =>
           e.command # f.command /\ <<e.resource, e.revision>> # <<f.resource, f.revision>>
                               /\ <<e.booking, e.action>> # <<f.booking, f.action>>
        BY DEF IInv, LogFacts
  <2> QED BY <2>1, <2>2 DEF IInv, BookingFacts, HistoryVerifies
<1> QED BY <1>1, ReservationInvariant, PTL

\* A tablet that was told of success finds its command carried out, and one that was told
\* of a refusal does not, whatever requests ran at once and came twice.
THEOREM TabletsToldTheTruth == Spec => []ToldTheTruth
<1>1. IInv => ToldTheTruth
      BY DEF IInv
<1> QED BY <1>1, ReservationInvariant, PTL

\* What was written to a calendar or to the catalog was asked for by somebody who had
\* seen all that was written before it.
THEOREM NoUpdateLost == Spec => []NoLostUpdate
<1>1. IInv => NoLostUpdate
      BY DEF IInv
<1> QED BY <1>1, ReservationInvariant, PTL

\* receipt gives a tablet whose answer was lost the event of its command.
THEOREM LostAnswersFound == Spec => []LostAnswerFound
<1>1. IInv => LostAnswerFound
  <2> SUFFICES ASSUME IInv, NEW t \in standing, tablet[t].view = "uncertain",
                      NEW e \in log, e.command = tablet[t].pending
               PROVE  e.actor = t /\ ReceiptBinds(e.command, e)
      BY DEF LostAnswerFound
  <2>1. t \in Tablet /\ tablet[t].pending # None
        BY DEF IInv, TypeOK
  <2>2. e.actor = body[e.command].actor
        BY DEF IInv, LogFacts
  <2> QED BY <2>1, <2>2 DEF IInv, TabletFacts, NoLostUpdate, ReceiptBinds
<1> QED BY <1>1, ReservationInvariant, PTL

-----------------------------------------------------------------------------
(* Capacity.  A reservation is admitted with all that are there by then, and  *)
(* what comes later was admitted with it: up to each reservation, in the order*)
(* of their creations, the load stays within what that one was admitted under.*)

\* The reservation o was not made after the reservation b.
Before(o, b) ==
    \E e, f \in log : /\ e.action = "created" /\ e.booking = o
                      /\ f.action = "created" /\ f.booking = b
                      /\ e.revision <= f.revision

UpTo(r, b, i) == {x \in Existing(r) : During(i, x[2]) /\ Before(x[1], b)}

Loads ==
    \A r \in Resource :
        /\ IsFiniteSet(Existing(r))
        /\ \A b \in Live(r) : \A w \in bookings[b].occurrences : \A i \in Nat :
             During(i, w) => Cardinality(UpTo(r, b, i)) <= bookings[b].under

\* A draft has finitely many windows.
LEMMA OccurrencesFinite ==
    ASSUME NEW d \in Draft
    PROVE  IsFiniteSet(Occurrences(d))
<1> DEFINE N == 0..d.count - 1
<1> DEFINE L(i) == d.local + i * d.step
<1> DEFINE S(l) == IF d.fold = 0 THEN Min(Readings(l)) ELSE Max(Readings(l))
<1> DEFINE W(l) == <<S(l), S(l) + d.duration>>
<1> DEFINE f == [i \in N |-> W(L(i))]
<1>1. Occurrences(d) = {W(l) : l \in Nominal(d)} /\ Nominal(d) = {L(i) : i \in N}
      BY DEF Occurrences, Nominal
<1> HIDE DEF W, L
<1>2. f \in Surjection(N, Occurrences(d))
      BY <1>1 DEF Surjection
<1>3. IsFiniteSet(N)
  <2>1. 0 \in Int /\ d.count - 1 \in Int
        BY ReservationsAssumption
  <2> QED BY <2>1, FS_Interval
<1> QED BY <1>2, <1>3, FS_Surjection

\* The units of finitely many windows are finitely many.
LEMMA TakenFinite ==
    ASSUME NEW k, NEW W, IsFiniteSet(W), NEW n \in Nat
    PROVE  IsFiniteSet(Taken(k, W, n))
<1> DEFINE f == [p \in W \X (1..n) |-> <<k, p[1], p[2]>>]
<1>1. IsFiniteSet(1..n)
      BY FS_Interval
<1>2. IsFiniteSet(W \X (1..n))
      BY <1>1, FS_Product
<1>3. f \in Surjection(W \X (1..n), Taken(k, W, n))
  <2>1. f \in [W \X (1..n) -> Taken(k, W, n)]
        BY DEF Taken
  <2>2. ASSUME NEW x \in Taken(k, W, n)
        PROVE  \E p \in W \X (1..n) : f[p] = x
    <3>1. <<x[2], x[3]>> \in W \X (1..n) /\ x = <<k, x[2], x[3]>>
          BY DEF Taken
    <3>2. f[<<x[2], x[3]>>] = x
          BY <3>1
    <3> QED BY <3>1, <3>2
  <2> QED BY <2>1, <2>2 DEF Surjection
<1> QED BY <1>2, <1>3, FS_Surjection

\* Windows that last at the same instant overlap.
LEMMA DuringOverlap ==
    ASSUME NEW v \in Nat \X Nat, NEW w \in Nat \X Nat, NEW i \in Nat, During(i, v), During(i, w)
    PROVE  Overlap(v, w)
BY DEF During, Overlap

LEMMA ExistingMember ==
    ASSUME NEW r, NEW x \in Existing(r)
    PROVE  x[1] \in Live(r) /\ x[2] \in bookings[x[1]].occurrences
BY DEF Existing, Taken

\* The windows of a reservation are pairs of instants.
LEMMA WindowType ==
    ASSUME TypeOK, NEW r, NEW b \in Live(r)
    PROVE  /\ b \in Command /\ bookings[b] # None /\ bookings[b] \in Booking
           /\ bookings[b].resource = r /\ ~bookings[b].cancelled
           /\ bookings[b].occurrences \subseteq Nat \X Nat
           /\ bookings[b].under \in Capacities /\ bookings[b].units \in Nat
BY DEF TypeOK, Live, Booking

\* What Reserve writes, if anything.
LEMMA ReserveWrites ==
    ASSUME IInv, NEW h \in Handler, Reserve(h), ~UNCHANGED <<bookings, log>>
    PROVE  \E k \in Command, v \in Booking, e \in Event :
               /\ bookings[k] = None /\ bookings' = [bookings EXCEPT ![k] = v]
               /\ v # None /\ ~v.cancelled /\ IsFiniteSet(v.occurrences)
               /\ log' = log \cup {e} /\ e.action = "created" /\ e.booking = k
               /\ e.resource = v.resource /\ e.revision = calendar[v.resource] + 1
               /\ \A w \in v.occurrences :
                    Cardinality({x \in Taken(k, v.occurrences, v.units) \cup Existing(v.resource) :
                                   Overlap(w, x[2])}) <= v.under
<1> USE DEF IInv
<1> PICK k \in Command : call[h].command = k
    BY DEF Reserve, Serving, CallFacts, TypeOK
<1>1. /\ call[h].pc = "commit" /\ Asked(h) = body[k] /\ body[k].kind = "create" /\ ~Replayed(k)
      BY DEF Reserve, Serving, Asked
<1>2. ~Refuse(h)
      BY DEF Refuse, store
<1> DEFINE d == body[k].draft
<1> DEFINE r == body[k].resource
<1> DEFINE v == [resource |-> r, owner |-> body[k].actor, occurrences |-> Occurrences(d),
                 units |-> d.units, cancelled |-> FALSE, under |-> call[h].rule.capacity]
<1>3. /\ Resolvable(d) /\ Logged(k, "created", k)
      /\ bookings' = [bookings EXCEPT ![k] = v]
      /\ \A w \in Occurrences(d) :
           Used(Existing(r), k, w, Occurrences(d), d.units) <= call[h].rule.capacity
      BY <1>1, <1>2 DEF Reserve
<1>4. body[k] # None /\ body[k] \in Body /\ d \in Draft
      BY <1>1 DEF CallFacts, BodyFacts, TypeOK
<1>5. /\ r \in Resource /\ body[k].actor \in Tablet
      /\ d.units \in Nat /\ call[h].rule.capacity \in Capacities
      BY <1>4, ReservationsAssumption DEF Body, TypeOK, Rule
<1>6. Occurrences(d) \in SUBSET (Nat \X Nat) /\ IsFiniteSet(Occurrences(d))
      BY <1>3, <1>4, OccurrencesType, OccurrencesFinite
<1>7. /\ v \in Booking /\ v.resource = r /\ v.occurrences = Occurrences(d)
      /\ v.units = d.units /\ v.cancelled = FALSE /\ v.under = call[h].rule.capacity
      BY <1>5, <1>6 DEF Booking
<1>8. bookings[k] = None
  <2>1. SUFFICES ASSUME bookings[k] # None PROVE FALSE
        OBVIOUS
  <2>2. PICK f \in log : f.booking = k /\ f.action = "created"
        BY <2>1 DEF BookingFacts
  <2>3. f.command = k
        BY <2>2 DEF LogFacts
  <2> QED BY <1>1, <2>3 DEF Replayed
<1>9. PICK e \in Event : /\ e.action = "created" /\ e.resource = r /\ e.booking = k
                          /\ e.revision = calendar[e.resource] + 1 /\ log' = log \cup {e}
      BY <1>3, <1>4, EventStep
<1>10. v # None
      BY <1>7, NoneAssumption
<1>11. \A w \in v.occurrences :
           Cardinality({x \in Taken(k, v.occurrences, v.units) \cup Existing(v.resource) :
                          Overlap(w, x[2])}) <= v.under
      BY <1>3, <1>7 DEF Used
<1> HIDE DEF v
<1> QED BY <1>3, <1>6, <1>7, <1>8, <1>9, <1>10, <1>11

\* What Withdraw writes, if anything.
LEMMA WithdrawWrites ==
    ASSUME IInv, NEW h \in Handler, Withdraw(h), ~UNCHANGED <<bookings, log>>
    PROVE  \E b \in Command, e \in Event :
               /\ bookings[b] # None /\ bookings' = [bookings EXCEPT ![b].cancelled = TRUE]
               /\ log' = log \cup {e} /\ e.action = "cancelled"
<1> USE DEF IInv
<1> PICK k \in Command : call[h].command = k
    BY DEF Withdraw, Serving, CallFacts, TypeOK
<1>1. call[h].pc = "commit" /\ Asked(h) = body[k] /\ body[k].kind = "cancel"
      BY DEF Withdraw, Serving, Asked
<1>2. ~Refuse(h)
      BY DEF Refuse, store
<1>3. body[k] # None /\ body[k].target \in Command /\ bookings[body[k].target] # None
      BY <1>1 DEF CallFacts, BodyFacts
<1> PICK b \in Command : body[k].target = b
    BY <1>3
<1>4. Logged(k, "cancelled", b) /\ bookings' = [bookings EXCEPT ![b].cancelled = TRUE]
      BY <1>1, <1>2 DEF Withdraw
<1>5. PICK e \in Event : e.action = "cancelled" /\ log' = log \cup {e}
      BY <1>3, <1>4, EventStep
<1> QED BY <1>3, <1>4, <1>5

LEMMA FewerUnits ==
    ASSUME NEW S, IsFiniteSet(S), NEW T, T \subseteq S, NEW n \in Nat, Cardinality(S) <= n
    PROVE  IsFiniteSet(T) /\ Cardinality(T) <= n
<1>1. IsFiniteSet(T) /\ Cardinality(T) <= Cardinality(S)
      BY FS_Subset
<1>2. Cardinality(S) \in Nat /\ Cardinality(T) \in Nat
      BY <1>1, FS_CardinalityType
<1> QED BY <1>1, <1>2

\* A reservation that create admits keeps the loads within bounds.
LEMMA ReserveLoads ==
    ASSUME TypeOK, TypeOK', LogFacts, Loads,
           NEW k \in Command, NEW v \in Booking, NEW e \in Event,
           bookings[k] = None, bookings' = [bookings EXCEPT ![k] = v],
           v # None, ~v.cancelled, IsFiniteSet(v.occurrences),
           log' = log \cup {e}, e.action = "created", e.booking = k,
           e.resource = v.resource, e.revision = calendar[v.resource] + 1,
           \A w \in v.occurrences :
               Cardinality({x \in Taken(k, v.occurrences, v.units) \cup Existing(v.resource) :
                              Overlap(w, x[2])}) <= v.under
    PROVE  Loads'
<1> DEFINE new == Taken(k, v.occurrences, v.units)
<1>1. /\ v.resource \in Resource /\ v.units \in Nat /\ v.under \in Nat
      /\ v.occurrences \subseteq Nat \X Nat
      BY ReservationsAssumption DEF Booking
<1>2. bookings'[k] = v /\ \A b \in Command \ {k} : bookings'[b] = bookings[b]
      BY DEF TypeOK
<1>3. \A r : Live(r)' = IF r = v.resource THEN Live(r) \cup {k} ELSE Live(r)
      BY <1>2 DEF Live
<1>4. k \notin Live(v.resource) /\ \A r : k \notin Live(r) /\ Live(r) \subseteq Command
      BY DEF Live
<1>5. \A r : r # v.resource => Existing(r)' = Existing(r)
      BY <1>2, <1>3, <1>4 DEF Existing
<1>6. Existing(v.resource)' = new \cup Existing(v.resource)
  <2>1. \A b \in Live(v.resource) :
           Taken(b, bookings'[b].occurrences, bookings'[b].units)
             = Taken(b, bookings[b].occurrences, bookings[b].units)
        BY <1>2, <1>4
  <2>2. Taken(k, bookings'[k].occurrences, bookings'[k].units) = new
        BY <1>2
  <2>3. Live(v.resource)' = Live(v.resource) \cup {k}
        BY <1>3
  <2> QED BY <2>1, <2>2, <2>3 DEF Existing
<1>7. IsFiniteSet(new \cup Existing(v.resource))
  <2>1. IsFiniteSet(new)
        BY <1>1, TakenFinite
  <2>2. IsFiniteSet(Existing(v.resource))
        BY <1>1 DEF Loads
  <2> HIDE DEF new
  <2> QED BY <2>1, <2>2, FS_Union
<1>8. ASSUME NEW r \in Resource, NEW o \in Live(r)', NEW b \in Live(r), Before(o, b)'
      PROVE  Before(o, b) /\ o # k
  <2> PICK f \in log', g \in log' : /\ f.action = "created" /\ f.booking = o
                                   /\ g.action = "created" /\ g.booking = b
                                   /\ f.revision <= g.revision
      BY <1>8 DEF Before
  <2>1. b # k /\ b \in Command /\ bookings[b].resource = r
        BY <1>4 DEF Live
  <2>2. g \in log /\ g.resource = r /\ g.revision <= calendar[r] /\ g.revision \in Nat
        BY <2>1 DEF LogFacts, TypeOK, Event
  <2>3. o # k
    <3> SUFFICES ASSUME o = k PROVE FALSE
        OBVIOUS
    <3>1. r = v.resource
          BY <1>3, <1>4
    <3>2. f = e
          BY DEF LogFacts
    <3>3. calendar[r] \in Nat
          BY DEF TypeOK
    <3> QED BY <2>2, <3>1, <3>2, <3>3
  <2>4. f \in log
        BY <2>3
  <2> QED BY <2>2, <2>3, <2>4 DEF Before
<1>9. ASSUME NEW r \in Resource
      PROVE  IsFiniteSet(Existing(r)')
      BY <1>5, <1>6, <1>7, <1>9 DEF Loads
<1>10. ASSUME NEW r \in Resource, NEW b \in Live(r), NEW i \in Nat
       PROVE  UpTo(r, b, i)' \subseteq UpTo(r, b, i)
  <2> SUFFICES ASSUME NEW x \in Existing(r)', During(i, x[2]), Before(x[1], b)'
               PROVE  x \in UpTo(r, b, i)
      BY DEF UpTo, During
  <2>1. x[1] \in Live(r)'
        BY DEF Existing, Taken
  <2>2. Before(x[1], b) /\ x[1] # k
        BY <1>8, <2>1
  <2>3. x \in Existing(r)
        BY <1>5, <1>6, <2>2 DEF Taken
  <2> QED BY <2>2, <2>3 DEF UpTo
<1>11. ASSUME NEW r \in Resource, NEW b \in Live(r)', NEW w \in bookings'[b].occurrences,
              NEW i \in Nat, During(i, w)
       PROVE  Cardinality(UpTo(r, b, i)') <= bookings'[b].under
  <2>1. CASE b = k
    <3> DEFINE over == {x \in new \cup Existing(r) : Overlap(w, x[2])}
    <3>1. r = v.resource /\ w \in v.occurrences
          BY <1>2, <1>3, <1>4, <2>1
    <3>2. Cardinality(over) <= v.under
          BY <3>1
    <3>3. UpTo(r, b, i)' \subseteq over
      <4> SUFFICES ASSUME NEW x \in Existing(r)', During(i, x[2]) PROVE x \in over
          BY DEF UpTo, During
      <4>1. x \in new \cup Existing(r)
            BY <1>6, <3>1
      <4>2. x[2] \in Nat \X Nat
            BY <1>1, <4>1, ExistingMember, WindowType DEF Taken
      <4>3. w \in Nat \X Nat
            BY <1>1, <3>1
      <4> QED BY <1>11, <4>1, <4>2, <4>3, DuringOverlap
    <3>4. IsFiniteSet(over)
      <4>1. over \in SUBSET (new \cup Existing(r)) /\ IsFiniteSet(new \cup Existing(r))
            BY <1>7, <3>1
      <4> HIDE DEF over, new
      <4> QED BY <4>1, FS_Subset
    <3> HIDE DEF over
    <3> QED BY <1>1, <1>2, <2>1, <3>2, <3>3, <3>4, FewerUnits
  <2>2. CASE b # k
    <3>1. b \in Live(r) /\ b \in Command /\ bookings'[b] = bookings[b]
          BY <1>2, <1>3, <1>4, <2>2
    <3>2. Cardinality(UpTo(r, b, i)) <= bookings[b].under /\ IsFiniteSet(Existing(r))
          BY <1>11, <3>1 DEF Loads
    <3>3. UpTo(r, b, i) \in SUBSET Existing(r)
          BY DEF UpTo
    <3>4. IsFiniteSet(UpTo(r, b, i))
          BY <3>2, <3>3, FS_Subset
    <3>5. bookings[b].under \in Nat
          BY <3>1, WindowType, ReservationsAssumption
    <3>6. UpTo(r, b, i)' \subseteq UpTo(r, b, i)
          BY <1>10, <3>1
    <3> QED BY <3>1, <3>2, <3>4, <3>5, <3>6, FewerUnits
  <2> QED BY <2>1, <2>2
<1>12. ASSUME NEW r \in Resource, NEW b \in Live(r)', NEW w \in bookings'[b].occurrences,
              NEW i \in Nat, During(i, w)'
       PROVE  Cardinality(UpTo(r, b, i))' <= bookings'[b].under
       BY <1>11, <1>12 DEF During
<1> QED BY <1>9, <1>12 DEF Loads

\* A cancellation takes units away and changes no order.
LEMMA WithdrawLoads ==
    ASSUME TypeOK, TypeOK', LogFacts, Loads, NEW k \in Command, NEW e \in Event,
           bookings[k] # None, bookings' = [bookings EXCEPT ![k].cancelled = TRUE],
           log' = log \cup {e}, e.action = "cancelled"
    PROVE  Loads'
<1>1. /\ bookings[k] \in Booking /\ bookings'[k] = [bookings[k] EXCEPT !.cancelled = TRUE]
      /\ \A b \in Command \ {k} : bookings'[b] = bookings[b]
      BY DEF TypeOK
<1>2. bookings'[k].cancelled
      BY <1>1 DEF Booking
<1>3. \A r : Live(r)' = Live(r) \ {k} /\ Live(r) \subseteq Command
  <2> TAKE r
  <2>1. Live(r) \subseteq Command
        BY DEF Live
  <2>2. \A b \in Command : b \in Live(r)' <=> b \in Live(r) /\ b # k
        BY <1>1, <1>2 DEF Live
  <2>3. Live(r)' \subseteq Command
        BY DEF Live
  <2> QED BY <2>1, <2>2, <2>3
<1>4. \A r : Existing(r)' \subseteq Existing(r)
      BY <1>1, <1>3 DEF Existing
<1>5. \A o, b : Before(o, b)' => Before(o, b)
      BY DEF Before
<1>6. ASSUME NEW r \in Resource
      PROVE  IsFiniteSet(Existing(r)) /\ IsFiniteSet(Existing(r)')
      BY <1>4, FS_Subset DEF Loads
<1>7. ASSUME NEW r \in Resource, NEW b \in Live(r)', NEW w \in bookings'[b].occurrences,
             NEW i \in Nat, During(i, w)'
      PROVE  Cardinality(UpTo(r, b, i))' <= bookings'[b].under
  <2>1. b \in Live(r) /\ b \in Command /\ bookings'[b] = bookings[b]
        BY <1>1, <1>3
  <2>2. Cardinality(UpTo(r, b, i)) <= bookings[b].under
        BY <1>7, <2>1 DEF Loads, During
  <2>3. UpTo(r, b, i) \in SUBSET Existing(r)
        BY DEF UpTo
  <2>4. IsFiniteSet(UpTo(r, b, i))
        BY <1>6, <2>3, FS_Subset
  <2>5. bookings[b].under \in Nat
        BY <2>1, WindowType, ReservationsAssumption
  <2>6. UpTo(r, b, i)' \subseteq UpTo(r, b, i)
        BY <1>4, <1>5 DEF UpTo, During
  <2> QED BY <2>1, <2>2, <2>4, <2>5, <2>6, FewerUnits
<1> QED BY <1>6, <1>7 DEF Loads

\* The earlier booking alone keeps the loads within bounds.
LEMMA LoadsInit == Init => Loads
<1> SUFFICES ASSUME Init PROVE Loads
    OBVIOUS
<1>1. PICK c \in Capacities, more \in SUBSET (Resource \ {Default}), t \in Tablet \ Admin,
           d \in Draft :
         /\ Resolvable(d)
         /\ \A w \in Occurrences(d) :
              Cardinality({x \in Taken(Earlier, Occurrences(d), d.units) : Overlap(w, x[2])}) <= c
         /\ catalog = Grown(c, more) /\ catalogRevision = c + Cardinality(more)
         /\ body = [k \in Command |-> IF k = Earlier
                      THEN [kind |-> "create", actor |-> t, resource |-> Default, known |-> c,
                            members |-> Tablet, revision |-> 1, catalogRevision |-> 0,
                            capacity |-> c, draft |-> d, target |-> None]
                      ELSE None]
         /\ bookings = [k \in Command |-> IF k = Earlier
                          THEN [resource |-> Default, owner |-> t, units |-> d.units,
                                occurrences |-> Occurrences(d), cancelled |-> FALSE,
                                under |-> c]
                          ELSE None]
         /\ log = {[command |-> Earlier, action |-> "created", actor |-> t,
                    resource |-> Default, booking |-> Earlier, revision |-> 2]}
      BY Zenon DEF Init
<1>2. Earlier \in Command
      BY ReservationsAssumption DEF Earlier
<1>3. /\ Occurrences(d) \subseteq Nat \X Nat /\ IsFiniteSet(Occurrences(d))
      /\ d.units \in Nat /\ c \in Nat
      BY <1>1, OccurrencesType, OccurrencesFinite, ReservationsAssumption
<1> DEFINE all == Taken(Earlier, Occurrences(d), d.units)
<1>4. IsFiniteSet(all)
      BY <1>3, TakenFinite
<1>5. \A r : Live(r) \subseteq {Earlier}
      BY <1>1 DEF Live
<1>6. /\ bookings[Earlier].occurrences = Occurrences(d) /\ bookings[Earlier].units = d.units
      /\ bookings[Earlier].under = c
      BY <1>1, <1>2
<1>7. \A r : Existing(r) \subseteq all
      BY <1>5, <1>6 DEF Existing
<1>8. ASSUME NEW r \in Resource
      PROVE  IsFiniteSet(Existing(r))
  <2> HIDE DEF all
  <2> QED BY <1>4, <1>7, FS_Subset
<1>9. ASSUME NEW r \in Resource, NEW b \in Live(r), NEW w \in bookings[b].occurrences,
             NEW i \in Nat, During(i, w)
      PROVE  Cardinality(UpTo(r, b, i)) <= bookings[b].under
  <2> DEFINE over == {x \in all : Overlap(w, x[2])}
  <2>1. b = Earlier /\ w \in Occurrences(d)
        BY <1>5, <1>6
  <2>2. Cardinality(over) <= c
        BY <1>1, <2>1
  <2>3. IsFiniteSet(over)
    <3>1. over \in SUBSET all
          OBVIOUS
    <3> HIDE DEF over, all
    <3> QED BY <1>4, <3>1, FS_Subset
  <2>4. UpTo(r, b, i) \subseteq over
    <3> SUFFICES ASSUME NEW x \in Existing(r), During(i, x[2]) PROVE x \in over
        BY DEF UpTo
    <3>1. x \in all
          BY <1>7
    <3>2. x[2] \in Nat \X Nat /\ w \in Nat \X Nat
          BY <1>3, <2>1, <3>1 DEF Taken
    <3> QED BY <1>9, <3>1, <3>2, DuringOverlap
  <2> HIDE DEF over
  <2> QED BY <1>3, <1>6, <2>1, <2>2, <2>3, <2>4, FewerUnits
<1> QED BY <1>8, <1>9 DEF Loads

LEMMA LoadsStep ==
    ASSUME IInv, IInv', Loads, [Next]_vars
    PROVE  Loads'
<1>1. CASE UNCHANGED <<bookings, log>>
  <2>1. \A r : Live(r)' = Live(r)
        BY <1>1 DEF Live
  <2>2. \A r : Existing(r)' = Existing(r)
        BY <1>1, <2>1 DEF Existing
  <2>3. \A o, b : Before(o, b)' = Before(o, b)
        BY <1>1 DEF Before
  <2>4. \A r, b, i : UpTo(r, b, i)' = UpTo(r, b, i)
        BY <2>2, <2>3 DEF UpTo, During
  <2> QED BY <1>1, <2>1, <2>2, <2>4 DEF Loads, During
<1>2. CASE \E h \in Handler : Reserve(h) /\ ~UNCHANGED <<bookings, log>>
  <2> PICK k \in Command, v \in Booking, e \in Event :
               /\ bookings[k] = None /\ bookings' = [bookings EXCEPT ![k] = v]
               /\ v # None /\ ~v.cancelled /\ IsFiniteSet(v.occurrences)
               /\ log' = log \cup {e} /\ e.action = "created" /\ e.booking = k
               /\ e.resource = v.resource /\ e.revision = calendar[v.resource] + 1
               /\ \A w \in v.occurrences :
                    Cardinality({x \in Taken(k, v.occurrences, v.units) \cup Existing(v.resource) :
                                   Overlap(w, x[2])}) <= v.under
      BY <1>2, ReserveWrites
  <2>1. TypeOK /\ LogFacts /\ TypeOK'
        BY DEF IInv
  <2> QED BY <2>1, ReserveLoads
<1>3. CASE \E h \in Handler : Withdraw(h) /\ ~UNCHANGED <<bookings, log>>
  <2> PICK k \in Command, e \in Event :
               /\ bookings[k] # None /\ bookings' = [bookings EXCEPT ![k].cancelled = TRUE]
               /\ log' = log \cup {e} /\ e.action = "cancelled"
      BY <1>3, WithdrawWrites
  <2>1. TypeOK /\ LogFacts /\ TypeOK'
        BY DEF IInv
  <2> QED BY <2>1, WithdrawLoads
<1>4. CASE ~UNCHANGED <<bookings, log>> /\ Next
  <2>1. ASSUME NEW t \in Tablet,
           \/ Timeout(t) \/ Accept(t) \/ Retire(t) \/ Reconcile(t) \/ Disable(t)
           \/ \E r \in Resource, d \in Draft : Create(t, r, d)
           \/ \E b \in Command : Cancel(t, b)
           \/ \E r \in Resource, c \in Capacities,
                kind \in {"add", "update", "deactivate"} : Administer(t, r, kind, c)
        PROVE  UNCHANGED <<bookings, log>>
        BY <2>1 DEF Timeout, Accept, Retire, Reconcile, Disable, Create, Cancel, Mutate,
                    Administer, store
  <2>2. ASSUME NEW h \in Handler, Facts(h) \/ ActiveCheck(h) \/ Records(h) \/ Replay(h) \/ Change(h)
        PROVE  UNCHANGED <<bookings, log>>
        BY <2>2 DEF Facts, ActiveCheck, Records, Replay, Change, Refuse, store
  <2>3. ASSUME NEW h \in Handler, NEW k \in Command, Arrive(h, k) \/ Duplicate(h, k)
        PROVE  UNCHANGED <<bookings, log>>
        BY <2>3 DEF Arrive, Duplicate, Serve, store
  <2>4. \E h \in Handler : Reserve(h) \/ Withdraw(h)
        BY <1>4, <2>1, <2>2, <2>3 DEF Next, ServerStep
  <2> QED BY <1>2, <1>3, <1>4, <2>4
<1> QED BY <1>1, <1>4 DEF vars, store

\* The last reservation, in the order of creations, of those that cover an instant was
\* admitted with all the others.
LEMMA LastOneCounts ==
    ASSUME IInv, Loads, NEW r \in Resource, NEW i \in Nat, NEW x0 \in Existing(r), During(i, x0[2])
    PROVE  \E b \in Live(r) : LoadAt(r, i) <= bookings[b].under
<1> DEFINE S == {x \in Existing(r) : During(i, x[2])}
<1> DEFINE Made(n, b) == \E e \in log : e.action = "created" /\ e.booking = b /\ e.revision = n
<1> DEFINE T == {n \in Nat : \E x \in S : Made(n, x[1])}
<1>1. \A x \in S : x[1] \in Live(r) /\ x[2] \in bookings[x[1]].occurrences
      BY ExistingMember
<1>2. \A b \in Live(r) : \E n \in Nat : Made(n, b) /\ n <= calendar[r]
  <2> TAKE b \in Live(r)
  <2>1. b \in Command /\ bookings[b] # None /\ bookings[b].resource = r
        BY DEF Live
  <2>2. PICK e \in log : e.booking = b /\ e.action = "created"
        BY <2>1 DEF IInv, BookingFacts
  <2>3. e.revision \in Nat /\ e.revision <= calendar[r]
        BY <2>1, <2>2 DEF IInv, LogFacts, TypeOK, Event
  <2> QED BY <2>2, <2>3
<1>3. \A b \in Live(r) : \A n \in Nat : Made(n, b) => n <= calendar[r]
      BY DEF IInv, LogFacts, Live
<1>4. calendar[r] \in Nat
      BY DEF IInv, TypeOK
<1>5. T \in SUBSET Nat /\ T # {} /\ \A n \in T : n <= calendar[r]
  <2>1. x0 \in S
        OBVIOUS
  <2> HIDE DEF S, Made
  <2> QED BY <1>1, <1>2, <1>3, <2>1
<1>6. IsFiniteSet(T)
  <2> HIDE DEF T
  <2> QED BY <1>4, <1>5, FS_BoundedSetOfNaturals
<1>7. PICK m \in T : \A n \in T : n <= m
  <2> HIDE DEF T
  <2> QED BY <1>5, <1>6, GreatestExists
<1>8. PICK x \in S : Made(m, x[1])
      BY <1>7
<1>9. PICK b \in Live(r) : x[1] = b
      BY <1>1
<1>10. S = UpTo(r, b, i)
  <2>1. ASSUME NEW y \in S PROVE Before(y[1], b)
    <3>1. PICK n \in Nat : Made(n, y[1])
          BY <1>1, <1>2
    <3>2. n <= m
          BY <1>7, <3>1
    <3> QED BY <1>8, <1>9, <3>1, <3>2 DEF Before
  <2> QED BY <2>1 DEF UpTo
<1>11. PICK w \in bookings[b].occurrences : During(i, w)
       BY <1>1, <1>9
<1>12. Cardinality(UpTo(r, b, i)) <= bookings[b].under
       BY <1>11 DEF Loads
<1> QED BY <1>10, <1>12 DEF LoadAt

LEMMA LoadsSuffice == IInv /\ Loads => NoOverbooking
<1> SUFFICES ASSUME IInv, Loads, NEW r \in Resource, NEW b \in Live(r),
                    NEW w \in bookings[b].occurrences
             PROVE  LoadAt(r, w[1]) <= Max({bookings[o].under : o \in Live(r)})
    BY DEF NoOverbooking
<1> DEFINE U == {bookings[o].under : o \in Live(r)}
<1>1. TypeOK
      BY DEF IInv
<1>2. U \subseteq Capacities /\ U # {}
      BY <1>1, WindowType
<1>3. U \subseteq Nat /\ IsFiniteSet(U)
  <2> HIDE DEF U
  <2> QED BY <1>2, ReservationsAssumption, FS_Subset
<1>4. Max(U) \in Nat /\ \A y \in U : y <= Max(U)
  <2> HIDE DEF U
  <2> QED BY <1>2, <1>3, MaxFacts
<1>5. w \in Nat \X Nat
      BY <1>1, WindowType
<1>6. CASE \E x \in Existing(r) : During(w[1], x[2])
  <2> PICK o \in Live(r) : LoadAt(r, w[1]) <= bookings[o].under
      BY <1>5, <1>6, LastOneCounts
  <2>1. bookings[o].under \in U
        OBVIOUS
  <2>2. IsFiniteSet({x \in Existing(r) : During(w[1], x[2])})
    <3>1. {x \in Existing(r) : During(w[1], x[2])} \in SUBSET Existing(r)
          OBVIOUS
    <3>2. IsFiniteSet(Existing(r))
          BY DEF Loads
    <3> QED BY <3>1, <3>2, FS_Subset
  <2>3. LoadAt(r, w[1]) \in Nat
        BY <2>2, FS_CardinalityType DEF LoadAt
  <2>4. bookings[o].under \in Nat /\ bookings[o].under <= Max(U)
        BY <1>3, <1>4, <2>1
  <2> HIDE DEF U
  <2>5. LoadAt(r, w[1]) <= Max(U)
        BY <1>4, <2>3, <2>4
  <2> QED BY <2>5 DEF U
<1>7. CASE ~\E x \in Existing(r) : During(w[1], x[2])
  <2>1. {x \in Existing(r) : During(w[1], x[2])} = {}
        BY <1>7
  <2>2. LoadAt(r, w[1]) = 0
        BY <2>1, FS_EmptySet DEF LoadAt
  <2> HIDE DEF U
  <2>3. LoadAt(r, w[1]) <= Max(U)
        BY <1>4, <2>2
  <2> QED BY <2>3 DEF U
<1> QED BY <1>6, <1>7

\* However many requests are checked at once, and whatever is cancelled and changed
\* meanwhile, reservations never use more of a resource than the largest capacity that
\* one of them was admitted under.
THEOREM CapacityRespected == Spec => []NoOverbooking
<1>1. IInv /\ IInv' /\ Loads /\ [Next]_vars => Loads'
      BY LoadsStep
<1> QED BY <1>1, LoadsInit, LoadsSuffice, ReservationInvariant, PTL DEF Spec
=============================================================================
