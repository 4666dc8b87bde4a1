---------------------------- MODULE Reservations ----------------------------
(***************************************************************************)
(* Shared resources of a home, their booking calendar, and the tablets     *)
(* that use them: the catalog (resource_reservations/catalog.py), the      *)
(* calendar (service.py), the requests that bind both to an account        *)
(* (integration.py), and the tablet's controller                           *)
(* (lib/features/resource_reservations/data).                              *)
(*                                                                         *)
(* A request reads the catalog, then the account and the calendar's        *)
(* revision, then the catalog again, each on a connection of its own, and  *)
(* only then opens the transaction that writes.  Requests run on several   *)
(* threads; answers can be late or lost, and a request can come twice.     *)
(***************************************************************************)
EXTENDS Integers, FiniteSets, FiniteSetsExt

CONSTANTS
    Tablet,   \* the tablets, each signed in with an account of its own
    Admin,    \* those of an administrator
    Command,  \* command identifiers; each is chosen once, by a tablet
    Handler,  \* the threads that serve requests
    Resource, Default, \* the resources there can be, and the first of them
    Capacities,        \* capacities an administrator chooses from
    Draft,    \* what a tablet asks for: [local, fold, count, step, duration, units]
    Offset,   \* the zone: hours that local time is ahead at each instant
    MaxReservations, \* MAX_RESERVATIONS, for a resource
    MaxMishaps,      \* bound: requests that come twice and accounts that are disabled
    None

Instant == DOMAIN Offset

ASSUME ReservationsAssumption ==
    /\ Admin \subseteq Tablet /\ Command # {}
    /\ Default \in Resource /\ IsFiniteSet(Resource)
    /\ Capacities \subseteq Nat \ {0} /\ Capacities # {} /\ IsFiniteSet(Capacities)
    /\ MaxReservations \in Nat /\ MaxMishaps \in Nat
    /\ Instant \subseteq Nat /\ IsFiniteSet(Instant) /\ \A t \in Instant : Offset[t] \in Int
    /\ \A d \in Draft : d.fold \in {0, 1} /\ d.count \in Nat \ {0}
                        /\ d.duration \in Nat \ {0} /\ d.units \in Nat \ {0}

VARIABLES
    catalog,      \* the resources; revision 0: not there
    catalogRevision, \* the revision of the catalog as a whole
    catalogLog,   \* its events
    calendar,     \* the revision of each resource's calendar
    bookings,     \* the reservations, by the command that created them
    log,          \* the calendars' events
    standing,     \* the accounts that are neither disabled nor new
    body,         \* the request a command was sent with
    delivered, duplicated, \* the commands that came to the server, and came twice
    call,         \* what each thread is doing
    answer,       \* what the server answered to a command
    tablet        \* the controller of each tablet

store == <<catalog, catalogRevision, catalogLog, calendar, bookings, log>>
arrivals == <<delivered, duplicated>>
vars == <<store, standing, body, arrivals, call, answer, tablet>>

-----------------------------------------------------------------------------
(* Local time and overlaps *)

\* The instants at which a clock on the wall shows a local time.
Readings(local) == {t \in Instant : t + Offset[t] = local}

Nominal(d) == {d.local + i * d.step : i \in 0..d.count - 1}

\* A local time that is skipped is refused, and so is the second reading of one
\* that is not repeated.
Resolvable(d) ==
    \A l \in Nominal(d) : Readings(l) # {} /\ (d.fold = 1 => Cardinality(Readings(l)) = 2)

\* _local_occurrences: windows [start, end) in universal time.
Occurrences(d) ==
    {LET start == IF d.fold = 0 THEN Min(Readings(l)) ELSE Max(Readings(l))
     IN <<start, start + d.duration>> : l \in Nominal(d)}

Overlap(a, b) == a[1] < b[2] /\ b[1] < a[2]

Live(r) == {k \in Command : bookings[k] # None /\ bookings[k].resource = r
                              /\ ~bookings[k].cancelled}

\* One element for each unit that a reservation takes of each of its windows.
Taken(k, windows, units) == {k} \X windows \X (1..units)

Existing(r) ==
    UNION {Taken(k, bookings[k].occurrences, bookings[k].units) : k \in Live(r)}

\* Mutant: each reservation is compared on its own.
UsedPairwise(existing, k, window, occurrences, units) ==
    units + Max({0} \cup {x[3] : x \in {x \in existing : Overlap(window, x[2])}})

\* What is used while a proposed window lasts: by itself, by every reservation
\* that overlaps it, and by the other proposed windows.
Used(existing, k, window, occurrences, units) ==
    Cardinality({x \in Taken(k, occurrences, units) \cup existing : Overlap(window, x[2])})

-----------------------------------------------------------------------------
(* Types *)

Rule == [revision : Nat, capacity : Capacities, active : BOOLEAN]
NoRule == [revision |-> 0, capacity |-> Min(Capacities), active |-> FALSE]

\* "known" is the rule as the tablet saw it, "revision" that of the calendar;
\* "catalogRevision" and "capacity" are for changes of the catalog, "draft" is
\* for a reservation, "target" for a cancellation.
Body == [kind : {"create", "cancel", "add", "update", "deactivate"}, actor : Tablet,
         resource : Resource, known : Nat, members : SUBSET Tablet, revision : Nat,
         catalogRevision : Nat, capacity : Capacities,
         draft : Draft \cup {None}, target : Command \cup {None}]

Booking == [resource : Resource, owner : Tablet, occurrences : SUBSET (Nat \X Nat),
            units : Nat, cancelled : BOOLEAN, under : Capacities]

Event == [command : Command, action : {"created", "cancelled"}, actor : Tablet,
          resource : Resource, booking : Command, revision : Nat]
CatalogEvent == [command : Command, actor : Tablet, resource : Resource,
                 resourceRevision : Nat, revision : Nat]

\* None is none of them.
ASSUME NoneAssumption ==
    None \notin Body /\ None \notin Booking /\ None \notin Command /\ None \notin Draft

Idle == [pc |-> "idle", command |-> None, own |-> FALSE, rule |-> NoRule]

TypeOK ==
    /\ catalog \in [Resource -> Rule] /\ catalogRevision \in Nat
    /\ catalogLog \subseteq CatalogEvent
    /\ calendar \in [Resource -> Nat] /\ log \subseteq Event
    /\ bookings \in [Command -> Booking \cup {None}]
    /\ standing \in SUBSET Tablet
    /\ body \in [Command -> Body \cup {None}]
    /\ delivered \in SUBSET Command /\ duplicated \in SUBSET delivered
    /\ call \in [Handler -> [pc : {"idle", "facts", "active", "records", "commit", "mutate"},
                             command : Command \cup {None}, own : BOOLEAN, rule : Rule]]
    /\ answer \in [Command -> {"nothing", "done", "refused"}]
    /\ tablet \in [Tablet -> [view : {"ready", "busy", "uncertain", "error"},
                              pending : Command \cup {None}]]
    /\ \A t \in Tablet : (tablet[t].view \in {"ready", "error"}) <=> (tablet[t].pending = None)

\* The default resource starts with capacity 1 at revision 1.  Here it was raised
\* unit by unit, another resource may have been added, and Earlier, of somebody
\* who is no administrator, has booked the first.
Earlier == CHOOSE k \in Command : TRUE

Grown(c, more) ==
    [r \in Resource |-> IF r = Default THEN [revision |-> c, capacity |-> c, active |-> TRUE]
                        ELSE IF r \in more
                        THEN [revision |-> 1, capacity |-> Max(Capacities), active |-> TRUE]
                        ELSE NoRule]

Init ==
    /\ standing = Tablet
    /\ catalogLog = {} /\ calendar = [r \in Resource |-> IF r = Default THEN 2 ELSE 1]
    /\ \E c \in Capacities, more \in SUBSET (Resource \ {Default}), t \in Tablet \ Admin, d \in Draft :
         /\ Resolvable(d)
         /\ \A w \in Occurrences(d) :
              Cardinality({x \in Taken(Earlier, Occurrences(d), d.units) : Overlap(w, x[2])}) <= c
         /\ catalog = Grown(c, more) /\ catalogRevision = c + Cardinality(more)
         /\ body = [k \in Command |-> IF k = Earlier
                      THEN [kind |-> "create", actor |-> t, resource |-> Default, known |-> c,
                            members |-> Tablet, revision |-> 1, catalogRevision |-> 0,
                            capacity |-> c, draft |-> d, target |-> None]
                      ELSE None]
         /\ bookings = [k \in Command |-> IF k = Earlier
                          THEN [resource |-> Default, owner |-> t, units |-> d.units,
                                occurrences |-> Occurrences(d), cancelled |-> FALSE,
                                under |-> c]
                          ELSE None]
         /\ log = {[command |-> Earlier, action |-> "created", actor |-> t,
                    resource |-> Default, booking |-> Earlier, revision |-> 2]}
    /\ delivered = {Earlier} /\ duplicated = {Earlier}
    /\ call = [h \in Handler |-> Idle]
    /\ answer = [k \in Command |-> IF k = Earlier THEN "done" ELSE "nothing"]
    /\ tablet = [t \in Tablet |-> [view |-> "ready", pending |-> None]]

\* Earlier will not come again and does not count.
Mishaps == Cardinality(duplicated \ {Earlier}) + Cardinality(Tablet \ standing)

\* uuid4: identifiers are told apart by nothing but when they were drawn.
Fresh == CHOOSE k \in Command : body[k] = None
Drawable == \E k \in Command : body[k] = None

-----------------------------------------------------------------------------
(* The tablet *)

\* _validSnapshot, of what can differ.
Plausible(r) ==
    \A b \in Command : bookings[b] # None /\ bookings[b].resource = r =>
                          bookings[b].units <= catalog[r].capacity

\* bind and load, which give create and cancel the revisions they send.  How
\* long the tablet then waits is how long the request is under way.
Mutate(t, r, kind, draft, target) ==
    /\ tablet[t].view = "ready" /\ t \in standing /\ Drawable
    /\ catalog[r].revision > 0 /\ Plausible(r)
    /\ body' = [body EXCEPT ![Fresh] =
         [kind |-> kind, actor |-> t, resource |-> r, known |-> catalog[r].revision,
          members |-> standing, revision |-> calendar[r], catalogRevision |-> 0,
          capacity |-> catalog[r].capacity, draft |-> draft, target |-> target]]
    /\ tablet' = [tablet EXCEPT ![t] = [view |-> "busy", pending |-> Fresh]]
    /\ UNCHANGED <<store, standing, arrivals, call, answer>>

Create(t, r, d) ==
    /\ catalog[r].active /\ d.units <= catalog[r].capacity
    /\ Mutate(t, r, "create", d, None)

Cancel(t, b) ==
    /\ bookings[b] # None /\ ~bookings[b].cancelled
    /\ t \in Admin \/ bookings[b].owner = t
    /\ Mutate(t, bookings[b].resource, "cancel", None, b)

\* The catalog controller of an administrator's tablet sends what it has loaded.
Administer(t, r, kind, capacity) ==
    /\ t \in Admin /\ t \in standing /\ Drawable
    /\ IF kind = "add" THEN catalog[r].revision = 0 ELSE catalog[r].active
    /\ kind = "deactivate" =>
         capacity = catalog[r].capacity /\ \E o \in Resource \ {r} : catalog[o].active
    /\ body' = [body EXCEPT ![Fresh] =
         [kind |-> kind, actor |-> t, resource |-> r, known |-> catalog[r].revision,
          members |-> standing, revision |-> 0, catalogRevision |-> catalogRevision,
          capacity |-> capacity, draft |-> None, target |-> None]]
    /\ UNCHANGED <<store, standing, arrivals, call, answer, tablet>>

\* The answer takes too long, or the connection breaks: the command stays open.
Timeout(t) ==
    /\ tablet[t].view = "busy" /\ tablet' = [tablet EXCEPT ![t].view = "uncertain"]
    /\ UNCHANGED <<store, standing, body, arrivals, call, answer>>

\* Mutant: the view is not put back.
FreeUncertain == [view |-> "uncertain", pending |-> None]

Free == [view |-> "ready", pending |-> None]

Broken == [view |-> "error", pending |-> None]

\* _matches, of what can differ: _recurrence tells a series of one as no series,
\* and matchesDraft does not find the draft in it.
Matches(k) ==
    body[k].kind = "create" /\ body[k].draft.count = 1 => body[k].draft.step = 0

\* The answer arrives while the tablet waits for it: _acceptIfCurrent, or the
\* exception of a refusal.  Only a conflict leaves the tablet ready; other
\* refusals, and an answer that cannot be used, forget the command too.
Accept(t) ==
    /\ tablet[t].view = "busy" /\ answer[tablet[t].pending] # "nothing"
    /\ \/ /\ answer[tablet[t].pending] = "refused" \/ Matches(tablet[t].pending)
          /\ tablet' = [tablet EXCEPT ![t] = Free]
       \/ tablet' = [tablet EXCEPT ![t] = Broken]
    /\ UNCHANGED <<store, standing, body, arrivals, call, answer>>

\* retire and detach, which forget a command that is open, and load.
Retire(t) ==
    /\ tablet[t].view # "ready" /\ tablet' = [tablet EXCEPT ![t] = Free]
    /\ UNCHANGED <<store, standing, body, arrivals, call, answer>>

\* What the expectations of a request and the server have to agree on.
SameAuthority(k) ==
    /\ body[k].members = standing
    /\ body[k].known = catalog[body[k].resource].revision

\* Mutant: the reader of a lost answer has to know the present revision.
ReceiptBindsPresent(k, e) == e.revision = calendar[body[k].resource]

\* receipt: the event has to be the one that the command would have written.
ReceiptBinds(k, e) == e.revision = body[k].revision + 1

\* reconcile: a receipt is taken, or shown as an error; anything else leaves the
\* command open.
Reconcile(t) ==
    /\ tablet[t].view = "uncertain" /\ t \in standing /\ SameAuthority(tablet[t].pending)
    /\ \E e \in log :
         /\ e.command = tablet[t].pending /\ e.actor = t /\ ReceiptBinds(e.command, e)
    /\ tablet' = [tablet EXCEPT ![t] = IF Matches(tablet[t].pending) THEN Free ELSE Broken]
    /\ UNCHANGED <<store, standing, body, arrivals, call, answer>>

-----------------------------------------------------------------------------
(* A request on the server *)

Serving(h, pc) == call[h].pc = pc
Asked(h) == body[call[h].command]

Goto(h, pc) == call' = [call EXCEPT ![h].pc = pc] /\ UNCHANGED answer

\* The answer is for the tablet that waits for the request it sent.
End(h, outcome) ==
    /\ call' = [call EXCEPT ![h] = Idle]
    /\ answer' = IF call[h].own THEN [answer EXCEPT ![call[h].command] = outcome] ELSE answer

Refuse(h) == End(h, "refused") /\ UNCHANGED store

\* A request starts with authority, which reads the rule of the resource.
Serve(h, k, own) ==
    /\ call[h] = Idle
    /\ call' = [call EXCEPT ![h] = [pc |-> "facts", command |-> k, own |-> own,
                                   rule |-> catalog[body[k].resource]]]
    /\ UNCHANGED <<store, standing, body, answer, tablet>>

Arrive(h, k) ==
    /\ body[k] # None /\ k \notin delivered /\ Serve(h, k, TRUE)
    /\ delivered' = delivered \cup {k} /\ UNCHANGED duplicated

\* The same request comes once more; its answer is for nobody.
Duplicate(h, k) ==
    /\ k \in delivered \ duplicated /\ Mishaps < MaxMishaps
    /\ Serve(h, k, FALSE)
    /\ duplicated' = duplicated \cup {k} /\ UNCHANGED delivered

Expected(h) ==
    /\ Asked(h).members = standing /\ Asked(h).known = call[h].rule.revision
    /\ Asked(h).revision = calendar[Asked(h).resource]

\* Then come the account, the members and the calendar's revision, with which
\* _expected compares what a reservation or a cancellation was sent for.
Facts(h) ==
    /\ Serving(h, "facts")
    /\ LET kind == Asked(h).kind
           allowed == Asked(h).actor \in standing
                      /\ (kind \in {"create", "cancel"} => Expected(h))
       IN \/ ~allowed /\ Refuse(h)
          \/ allowed /\ kind = "create" /\ Goto(h, "active")
          \/ allowed /\ kind = "cancel" /\ Goto(h, "commit")
          \/ allowed /\ kind = "update" /\ Goto(h, "records")
          \/ allowed /\ kind \in {"add", "deactivate"} /\ Goto(h, "mutate")
    /\ UNCHANGED <<store, standing, body, arrivals, tablet>>

\* create looks into the catalog again.
ActiveCheck(h) ==
    /\ Serving(h, "active")
    /\ \/ catalog[Asked(h).resource].active /\ Goto(h, "commit")
       \/ ~catalog[Asked(h).resource].active /\ Refuse(h)
    /\ UNCHANGED <<store, standing, body, arrivals, tablet>>

InUse(r) == \E b \in Command : bookings[b] # None /\ bookings[b].resource = r

\* update_resource: the policy of a resource with reservations stays.  The
\* reservations and the catalog are read on two connections; here it is one step,
\* since mutate refuses if the catalog has changed after the tablet's reading.
Records(h) ==
    /\ Serving(h, "records")
    /\ LET r == Asked(h).resource
           bound == InUse(r) /\ Asked(h).capacity # catalog[r].capacity
       IN (bound /\ Refuse(h)) \/ (~bound /\ Goto(h, "mutate"))
    /\ UNCHANGED <<store, standing, body, arrivals, tablet>>

-----------------------------------------------------------------------------
(* The transactions *)

\* Mutant: any command of the resource will do.
ReplayedAny(k) == \E e \in log : e.resource = body[k].resource

\* _find_replay
Replayed(k) == \E e \in log : e.command = k

Logged(k, action, b) ==
    LET r == body[k].resource IN
    /\ calendar' = [calendar EXCEPT ![r] = @ + 1]
    /\ log' = log \cup {[command |-> k, action |-> action, actor |-> body[k].actor,
                         resource |-> r, booking |-> b, revision |-> calendar[r] + 1]}

\* ReservationStore.create and cancel, when the command was carried out before.
Replay(h) ==
    /\ Serving(h, "commit") /\ Replayed(call[h].command) /\ End(h, "done")
    /\ UNCHANGED <<store, standing, body, arrivals, tablet>>

Room(r) ==
    Cardinality({b \in Command : bookings[b] # None /\ bookings[b].resource = r})
        < MaxReservations

\* create: the revision once more, the limit, and the overlaps, with the rule
\* that authority has read.
Reserve(h) ==
    /\ Serving(h, "commit") /\ Asked(h).kind = "create" /\ ~Replayed(call[h].command)
    /\ LET k == call[h].command
           r == Asked(h).resource
           d == Asked(h).draft
           windows == Occurrences(d)
           allowed == /\ Resolvable(d) /\ d.units <= call[h].rule.capacity
                      /\ Asked(h).revision = calendar[r] /\ Room(r)
                      /\ \A w \in windows :
                           Used(Existing(r), k, w, windows, d.units) <= call[h].rule.capacity
       IN \/ ~allowed /\ Refuse(h)
          \/ /\ allowed /\ End(h, "done") /\ Logged(k, "created", k)
             /\ bookings' = [bookings EXCEPT ![k] =
                  [resource |-> r, owner |-> Asked(h).actor, occurrences |-> windows,
                   units |-> d.units, cancelled |-> FALSE, under |-> call[h].rule.capacity]]
             /\ UNCHANGED <<catalog, catalogRevision, catalogLog>>
    /\ UNCHANGED <<standing, body, arrivals, tablet>>

\* Mutant: a reservation that is cancelled already is cancelled again.
CancellableAgain(h, b) == Asked(h).revision <= calendar[Asked(h).resource]

Cancellable(h, b) ==
    /\ Asked(h).revision = calendar[Asked(h).resource] /\ ~bookings[b].cancelled
    /\ Asked(h).actor \in Admin \/ bookings[b].owner = Asked(h).actor

\* cancel
Withdraw(h) ==
    /\ Serving(h, "commit") /\ Asked(h).kind = "cancel" /\ ~Replayed(call[h].command)
    /\ LET b == Asked(h).target IN
       \/ ~Cancellable(h, b) /\ Refuse(h)
       \/ /\ Cancellable(h, b) /\ End(h, "done")
          /\ bookings' = [bookings EXCEPT ![b].cancelled = TRUE]
          /\ Logged(call[h].command, "cancelled", b)
          /\ UNCHANGED <<catalog, catalogRevision, catalogLog>>
    /\ UNCHANGED <<standing, body, arrivals, tablet>>

\* Mutant: the revision of the resource is enough.
SeenResource(h) == TRUE

Seen(h) == Asked(h).catalogRevision = catalogRevision

LastActive(r) == \A o \in Resource \ {r} : ~catalog[o].active

\* ResourceCatalog.mutate, which does not look at the account again.
Change(h) ==
    /\ Serving(h, "mutate")
    /\ LET k == call[h].command
           r == Asked(h).resource
           replay == {e \in catalogLog : e.command = k}
           allowed == /\ Seen(h)
                      /\ Asked(h).kind # "add" =>
                           catalog[r].revision = Asked(h).known /\ catalog[r].active
                      /\ Asked(h).kind = "deactivate" => ~LastActive(r)
       IN \/ /\ replay # {} /\ UNCHANGED store
             /\ End(h, IF \A e \in replay : e.resourceRevision = catalog[r].revision
                       THEN "done" ELSE "refused")
          \/ replay = {} /\ ~allowed /\ Refuse(h)
          \/ /\ replay = {} /\ allowed /\ End(h, "done")
             /\ catalog' = [catalog EXCEPT ![r] =
                  [revision |-> @.revision + 1, capacity |-> Asked(h).capacity,
                   active |-> Asked(h).kind # "deactivate"]]
             /\ catalogLog' = catalogLog \cup
                  {[command |-> k, actor |-> Asked(h).actor, resource |-> r,
                    resourceRevision |-> catalog[r].revision + 1,
                    revision |-> catalogRevision + 1]}
             /\ catalogRevision' = catalogRevision + 1
             /\ UNCHANGED <<calendar, bookings, log>>
    /\ UNCHANGED <<standing, body, arrivals, tablet>>

\* Another administrator disables an account.
Disable(t) ==
    /\ Mishaps < MaxMishaps
    /\ t \in standing /\ standing' = standing \ {t}
    /\ UNCHANGED <<store, body, arrivals, call, answer, tablet>>

ServerStep(h) ==
    \/ Facts(h) \/ ActiveCheck(h) \/ Records(h)
    \/ Replay(h) \/ Reserve(h) \/ Withdraw(h) \/ Change(h)

Next ==
    \/ \E t \in Tablet :
         \/ Timeout(t) \/ Accept(t) \/ Retire(t) \/ Reconcile(t) \/ Disable(t)
         \/ \E r \in Resource, d \in Draft : Create(t, r, d)
         \/ \E b \in Command : Cancel(t, b)
         \/ \E r \in Resource, c \in Capacities,
              kind \in {"add", "update", "deactivate"} : Administer(t, r, kind, c)
    \/ \E h \in Handler :
         \/ ServerStep(h)
         \/ \E k \in Command : Arrive(h, k) \/ Duplicate(h, k)

Spec == Init /\ [][Next]_vars

-----------------------------------------------------------------------------
(* Properties *)

During(i, window) == window[1] <= i /\ i < window[2]

LoadAt(r, i) == Cardinality({x \in Existing(r) : During(i, x[2])})

\* The overlap check of create: reservations never use more of a resource than the
\* largest capacity that one of them was admitted under, whatever is booked and
\* cancelled at once, in series and across changes of the clocks (what is used peaks
\* at the start of a window).
NoOverbooking ==
    \A r \in Resource : \A b \in Live(r) : \A w \in bookings[b].occurrences :
        LoadAt(r, w[1]) <= Max({bookings[o].under : o \in Live(r)})

\* Nor do they use more than the resource has now ("Schedule policy changes are
\* rejected while a resource has retained reservations",
\* docs/testing/f40-shared-resource-reservations-client.tdd.md).
WithinCapacity ==
    \A r \in Resource : \A b \in Live(r) : \A w \in bookings[b].occurrences :
        LoadAt(r, w[1]) <= catalog[r].capacity

\* What _verified demands of the tables whenever they are read: the revision
\* counts the events, each reservation has one creation, and at most one
\* cancellation, after it.
HistoryVerifies ==
    /\ \A r \in Resource : calendar[r] = 1 + Cardinality({e \in log : e.resource = r})
    /\ \A e, f \in log : e # f =>
         e.command # f.command /\ <<e.resource, e.revision>> # <<f.resource, f.revision>>
                             /\ <<e.booking, e.action>> # <<f.booking, f.action>>
    /\ \A b \in Command :
         (bookings[b] # None) <=> \E e \in log : e.booking = b /\ e.action = "created"
    /\ \A e \in log : e.action = "cancelled" =>
         bookings[e.booking].cancelled
         /\ \E f \in log : f.booking = e.booking /\ f.action = "created"
                          /\ f.revision < e.revision

Carried(k) == (\E e \in log : e.command = k) \/ \E e \in catalogLog : e.command = k

\* A tablet that was told of success finds its command carried out; one that was
\* told of a refusal, of a request that came once, has none carried out behind
\* its back.
ToldTheTruth ==
    \A k \in Command :
        /\ answer[k] = "done" => Carried(k)
        /\ answer[k] = "refused" /\ k \notin duplicated => ~Carried(k)

\* Of requests sent for the same revision one wins: whatever was written to a
\* calendar or to the catalog was asked for by somebody who had seen all that
\* was written before.
NoLostUpdate ==
    /\ \A e \in log : e.revision = body[e.command].revision + 1
    /\ \A e \in catalogLog : e.revision = body[e.command].catalogRevision + 1

\* A tablet whose answer was lost is given the receipt of its command when it
\* asks, however far the calendar has moved on since, unless the account, the
\* members or the resource changed.  (Whether it then takes the receipt is Matches.)
LostAnswerFound ==
    \A t \in standing :
        tablet[t].view = "uncertain" /\ SameAuthority(tablet[t].pending) =>
        \A e \in log : e.command = tablet[t].pending =>
            e.actor = t /\ ReceiptBinds(e.command, e)

=============================================================================
