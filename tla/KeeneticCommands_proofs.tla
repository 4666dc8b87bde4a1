----------------------- MODULE KeeneticCommands_proofs -----------------------
(***************************************************************************)
(* Proofs about KeeneticCommands, for any commands and limits: a command   *)
(* is handed to the effect at most once, a receipt in memory agrees with   *)
(* the journal, the journal never lacks room to finish what it accepted,   *)
(* and the journal implements CommandLedger.                               *)
(*                                                                         *)
(* The inductive invariant ties the three places a command lives in to its *)
(* record: a preview in memory is of an accepted record; the confirmation  *)
(* that holds the lock is of an executing one, and its stage and reply say *)
(* what the worker did; a record's status bounds what the worker did and   *)
(* how often the command was sent.  For the room in the journal it counts  *)
(* records: each has at most three events.                                 *)
(***************************************************************************)
EXTENDS KeeneticCommands, FiniteSetTheorems, SequenceTheorems, TLAPS

Accepted == {c \in Command : record[c] = "accepted"}
Executing == {c \in Command : record[c] = "executing"}
Recorded == {c \in Command : record[c] # "none"}

\* What a record's status says of the worker, the router and the effect.
RecordFacts ==
    \A c \in Command :
        /\ sends[c] <= 1
        /\ record[c] \in {"none", "accepted"} => sends[c] = 0 /\ worker[c] = "none"
        /\ record[c] = "succeeded" => worker[c] = "applied"
        /\ record[c] \in {"failed", "cancelled"} => worker[c] \in {"none", "refused"}
        /\ base[c] <= target.rev
        /\ worker[c] = "applied" => base[c] < target.rev

\* Only accepted commands can be confirmed.
PreviewFacts == \A c \in previews : record[c] = "accepted"

\* The confirmation that holds the lock.
RunFacts ==
    run # NoRun =>
        /\ up /\ run.cmd \in Command /\ run.stage # "none"
        /\ record[run.cmd] = "executing"
        /\ run.stage = "dispatched" => worker[run.cmd] = "none"
        /\ run.stage # "replied" => run.reply = "none"
        /\ run.stage = "replied" => run.reply # "none"
        /\ run.reply = "ok" => worker[run.cmd] = "applied"
        /\ run.reply = "failed" => worker[run.cmd] \in {"none", "refused"}

\* A server that is down has no memory and no request under way.
DownFacts ==
    ~up => /\ run = NoRun
           /\ previews = {} /\ second = {} /\ known = {} /\ receipts = <<>>

\* A record has at most three events, and those still to come are not written.
Budget ==
    /\ IsFiniteSet(Recorded)
    /\ Cardinality(Recorded) <= MaxCommands
    /\ Len(events) + 2 * Cardinality(Accepted) + Cardinality(Executing)
         <= 3 * Cardinality(Recorded)

IInv == TypeOK /\ RecordFacts /\ PreviewFacts /\ RunFacts /\ DownFacts /\ ReceiptAgrees
        /\ Budget

-----------------------------------------------------------------------------
(* The journal *)

Event == [cmd : Command, status : Status]

\* What one transaction of the journal does to a record and its events.
LEMMA LogFacts ==
    ASSUME TypeOK, NEW c \in Command, NEW s \in Status, Log(c, s)
    PROVE  /\ record' \in [Command -> Status]
           /\ record'[c] = s
           /\ \A d \in Command : d # c => record'[d] = record[d]
           /\ events' \in Seq(Event)
           /\ Len(events') = Len(events) + 1 /\ Len(events) \in Nat
<1>1. events \in Seq(Event) /\ [cmd |-> c, status |-> s] \in Event
      BY DEF TypeOK, Event
<1> QED BY <1>1 DEF TypeOK, Log

\* The sets the budget counts are finite.
LEMMA FiniteCounts ==
    ASSUME TypeOK, IsFiniteSet(Recorded)
    PROVE  /\ Cardinality(Recorded) \in Nat
           /\ IsFiniteSet(Accepted) /\ Cardinality(Accepted) \in Nat
           /\ IsFiniteSet(Executing) /\ Cardinality(Executing) \in Nat
           /\ IsFiniteSet(UnfinishedCommands)
           /\ Cardinality(UnfinishedCommands) \in Nat
<1>1. /\ Accepted \in SUBSET Recorded /\ Executing \in SUBSET Recorded
      /\ UnfinishedCommands \in SUBSET Recorded
      BY DEF Accepted, Executing, Recorded, UnfinishedCommands, Unfinished
<1>2. /\ IsFiniteSet(Accepted) /\ IsFiniteSet(Executing)
      /\ IsFiniteSet(UnfinishedCommands)
      BY <1>1, FS_Subset
<1> QED BY <1>2, FS_CardinalityType DEF Unfinished

\* A record that is accepted takes a place in the journal, and its three events.
LEMMA BudgetOfAccept ==
    ASSUME TypeOK, Budget, NEW c \in Command, record[c] = "none",
           Cardinality(Recorded) < MaxCommands, Log(c, "accepted")
    PROVE  Budget'
<1>1. /\ IsFiniteSet(Recorded) /\ Cardinality(Recorded) \in Nat
      /\ IsFiniteSet(Accepted) /\ Cardinality(Accepted) \in Nat
      /\ Cardinality(Executing) \in Nat
      BY FiniteCounts DEF Budget, Unfinished
<1>2. /\ record'[c] = "accepted" /\ \A d \in Command : d # c => record'[d] = record[d]
      /\ Len(events') = Len(events) + 1 /\ Len(events) \in Nat
      BY LogFacts DEF Status, Unfinished
<1>3. /\ Recorded' = Recorded \cup {c} /\ c \notin Recorded
      /\ Accepted' = Accepted \cup {c} /\ c \notin Accepted
      /\ Executing' = Executing
      BY <1>2 DEF Recorded, Accepted, Executing
<1>4. /\ IsFiniteSet(Recorded') /\ Cardinality(Recorded') = Cardinality(Recorded) + 1
      /\ Cardinality(Accepted') = Cardinality(Accepted) + 1
      BY <1>1, <1>3, FS_AddElement
<1> QED BY <1>1, <1>2, <1>3, <1>4, CommandConstants DEF Budget

\* A record that moves on writes one event and has one less to write.
LEMMA BudgetOfMove ==
    ASSUME TypeOK, Budget, NEW c \in Command, NEW s \in Final \cup {"executing"},
           s \in Allowed(record[c]), Log(c, s)
    PROVE  Budget'
<1>1. /\ IsFiniteSet(Recorded) /\ Cardinality(Recorded) \in Nat
      /\ IsFiniteSet(Accepted) /\ Cardinality(Accepted) \in Nat
      /\ IsFiniteSet(Executing) /\ Cardinality(Executing) \in Nat
      BY FiniteCounts DEF Budget, Unfinished
<1>2. /\ record'[c] = s /\ \A d \in Command : d # c => record'[d] = record[d]
      /\ Len(events') = Len(events) + 1 /\ Len(events) \in Nat
      BY LogFacts DEF Status, Unfinished
<1>3. \/ record[c] = "accepted"
      \/ record[c] = "executing" /\ s # "executing"
      BY DEF Allowed, TypeOK, Status, Final, Unfinished
<1>4. Recorded' = Recorded
      BY <1>2, <1>3 DEF Recorded, Final
<1>5. CASE record[c] = "accepted" /\ s = "executing"
  <2>1. /\ Accepted' = Accepted \ {c} /\ c \in Accepted
        /\ Executing' = Executing \cup {c} /\ c \notin Executing
        BY <1>2, <1>5 DEF Accepted, Executing
  <2>2. /\ Cardinality(Accepted') = Cardinality(Accepted) - 1
        /\ Cardinality(Executing') = Cardinality(Executing) + 1
        BY <1>1, <2>1, FS_AddElement, FS_RemoveElement
  <2> QED BY <1>1, <1>2, <1>4, <2>2, CommandConstants DEF Budget
<1>6. CASE record[c] = "accepted" /\ s # "executing"
  <2>1. /\ Accepted' = Accepted \ {c} /\ c \in Accepted
        /\ Executing' = Executing
        BY <1>2, <1>6 DEF Accepted, Executing, Final
  <2>2. Cardinality(Accepted') = Cardinality(Accepted) - 1
        BY <1>1, <2>1, FS_RemoveElement
  <2> QED BY <1>1, <1>2, <1>4, <2>1, <2>2, CommandConstants DEF Budget
<1>7. CASE record[c] = "executing" /\ s # "executing"
  <2>1. /\ Accepted' = Accepted
        /\ Executing' = Executing \ {c} /\ c \in Executing
        BY <1>2, <1>7 DEF Accepted, Executing, Final
  <2>2. Cardinality(Executing') = Cardinality(Executing) - 1
        BY <1>1, <2>1, FS_RemoveElement
  <2> QED BY <1>1, <1>2, <1>4, <2>1, <2>2, CommandConstants DEF Budget
<1> QED BY <1>3, <1>5, <1>6, <1>7

\* What does not touch the journal keeps its budget.
LEMMA BudgetSame ==
    ASSUME Budget, UNCHANGED <<record, events>>
    PROVE  Budget'
BY DEF Budget, Recorded, Accepted, Executing

\* A finite set can be laid out as a sequence.
LEMMA SetToSeqFacts ==
    ASSUME NEW S, IsFiniteSet(S)
    PROVE  /\ SetToSeq(S) \in Seq(S)
           /\ Len(SetToSeq(S)) = Cardinality(S)
<1>1. Cardinality(S) \in Nat /\ ExistsBijection(1..Cardinality(S), S)
      BY FS_CardinalityType
<1>2. \E f \in [1..Cardinality(S) -> S] : IsInjective(f)
      BY <1>1 DEF ExistsBijection, Bijection, Injection
<1>3. SetToSeq(S) \in [1..Cardinality(S) -> S]
      BY <1>2 DEF SetToSeq
<1> QED BY <1>1, <1>3

\* The events of a restart, one for each record it gives up on.
LEMMA BudgetOfStart ==
    ASSUME TypeOK, Budget, Start
    PROVE  /\ Budget'
           /\ events' \in Seq(Event)
<1> DEFINE lost == SetToSeq(UnfinishedCommands)
<1> DEFINE more == [i \in 1..Len(lost) |-> [cmd |-> lost[i], status |-> "unknown"]]
<1>1. /\ IsFiniteSet(Recorded) /\ Cardinality(Recorded) \in Nat
      /\ IsFiniteSet(Accepted) /\ Cardinality(Accepted) \in Nat
      /\ IsFiniteSet(Executing) /\ Cardinality(Executing) \in Nat
      /\ IsFiniteSet(UnfinishedCommands) /\ Cardinality(UnfinishedCommands) \in Nat
      BY FiniteCounts DEF Budget, Unfinished
<1>2. lost \in Seq(UnfinishedCommands) /\ Len(lost) = Cardinality(UnfinishedCommands)
      BY <1>1, SetToSeqFacts
<1>3. \A i \in 1..Len(lost) : lost[i] \in Command
      BY <1>2 DEF UnfinishedCommands
<1>4. more \in [1..Len(lost) -> Event]
      BY <1>3 DEF Event, Status, Final
<1>5. events \in Seq(Event) /\ events' = events \o more
      BY DEF TypeOK, Event, Start
<1> HIDE DEF lost, more
<1>6. /\ events' \in Seq(Event) /\ Len(events) \in Nat
      /\ Len(events') = Len(events) + Cardinality(UnfinishedCommands)
  <2>1. Len(lost) \in Nat
        BY <1>1, <1>2
  <2>2. more \in Seq(Event) /\ Len(more) = Len(lost)
        BY <1>4, <2>1
  <2>3. /\ events \o more \in Seq(Event)
        /\ Len(events \o more) = Len(events) + Len(more)
        BY <1>5, <2>2, ConcatProperties, Zenon
  <2>4. Len(events) \in Nat
        BY <1>5
  <2> QED BY <1>2, <1>5, <2>2, <2>3, <2>4
<1>7. Cardinality(UnfinishedCommands)
        <= Cardinality(Accepted) + Cardinality(Executing)
  <2>1. UnfinishedCommands = Accepted \cup Executing
        BY DEF UnfinishedCommands, Unfinished, Accepted, Executing
  <2>2. Accepted \cap Executing = {}
        BY DEF Accepted, Executing
  <2>3. Cardinality(Accepted \cup Executing) = Cardinality(Accepted) + Cardinality(Executing)
                                               - Cardinality(Accepted \cap Executing)
        BY <1>1, FS_Union
  <2>4. Cardinality(Accepted \cap Executing) = 0
        BY <2>2, FS_EmptySet
  <2> QED BY <1>1, <2>1, <2>3, <2>4
<1>8. /\ Recorded' = Recorded
      /\ Accepted' = {} /\ Executing' = {}
      BY DEF Start, Recorded, Accepted, Executing, UnfinishedCommands, Unfinished, TypeOK
<1>9. Cardinality({}) = 0
      BY FS_EmptySet
<1>10. /\ IsFiniteSet(Recorded)' /\ (Cardinality(Recorded) <= MaxCommands)'
       BY <1>8 DEF Budget
<1> QED BY <1>1, <1>6, <1>7, <1>8, <1>9, <1>10, CommandConstants DEF Budget

-----------------------------------------------------------------------------
(* Previews *)

\* The receipts in memory are of finished records.
LEMMA OldReceipts ==
    ASSUME TypeOK, ReceiptAgrees, NEW j \in 1..Len(receipts)
    PROVE  /\ receipts[j].cmd \in Command /\ receipts[j].status \in Final
           /\ record[receipts[j].cmd] = receipts[j].status
<1>1. receipts \in Seq([cmd : Command, status : Final])
      BY DEF TypeOK
<1>2. receipts[j] \in [cmd : Command, status : Final]
      BY <1>1, ElementOfSeq, Zenon
<1> QED BY <1>2 DEF ReceiptAgrees

\* A preview is registered for a record that is accepted.
LEMMA PreviewStep ==
    ASSUME IInv, NEW c \in Command, Preview(c)
    PROVE  IInv'
<1> USE DEF IInv
<1>1. CASE record[c] = "none" /\ Log(c, "accepted") /\ Cardinality(Recorded) < MaxCommands
           /\ base' = [base EXCEPT ![c] = target.rev]
  <2>1. /\ record' \in [Command -> Status] /\ record'[c] = "accepted"
        /\ \A d \in Command : d # c => record'[d] = record[d]
        /\ events' \in Seq(Event)
        BY <1>1, LogFacts DEF Status, Unfinished
  <2>2. Budget'
        BY <1>1, BudgetOfAccept
  <2>3. TypeOK'
        BY <1>1, <2>1 DEF TypeOK, Preview, Register, outside, Event
  <2>4. RecordFacts'
        BY <1>1, <2>1 DEF TypeOK, RecordFacts, Preview, outside
  <2>5. PreviewFacts' /\ DownFacts'
        BY <1>1, <2>1 DEF TypeOK, PreviewFacts, DownFacts, Preview, Register, Free
  <2>6. RunFacts'
        BY DEF RunFacts, Preview, Free
  <2>7. ReceiptAgrees'
    <3>1. \A j \in 1..Len(receipts) : receipts[j].cmd # c
          BY <1>1, OldReceipts DEF Final
    <3> QED BY <2>1, <3>1, OldReceipts DEF ReceiptAgrees, Preview, Register
  <2> QED BY <2>2, <2>3, <2>4, <2>5, <2>6, <2>7
<1>2. CASE record[c] = "accepted" /\ UNCHANGED journal
  <2>1. Budget'
        BY <1>2, BudgetSame DEF journal
  <2>2. TypeOK'
        BY <1>2 DEF TypeOK, Preview, Register, outside, journal
  <2>3. RecordFacts' /\ PreviewFacts' /\ DownFacts'
        BY <1>2 DEF RecordFacts, PreviewFacts, DownFacts, Preview, Register, outside, journal,
                    Free
  <2>4. RunFacts' /\ ReceiptAgrees'
        BY <1>2 DEF RunFacts, ReceiptAgrees, Preview, Register, journal, Free
  <2> QED BY <2>1, <2>2, <2>3, <2>4
<1> QED BY <1>1, <1>2 DEF Preview, AcceptRecord, Recorded

\* Memory may forget a preview, or offer its second token, at any time.
LEMMA ForgetStep ==
    ASSUME IInv,
           UNCHANGED <<journal, outside, run, sends, up, receipts>>,
           up, previews' \subseteq previews, second' \subseteq previews',
           previews' \subseteq known', known' \subseteq known
    PROVE  IInv'
<1> USE DEF IInv
<1>1. Budget'
      BY BudgetSame DEF journal
<1>2. TypeOK'
      BY DEF TypeOK, outside, journal
<1>3. RecordFacts' /\ PreviewFacts' /\ DownFacts'
      BY DEF RecordFacts, PreviewFacts, DownFacts, outside, journal
<1>4. RunFacts' /\ ReceiptAgrees'
      BY DEF RunFacts, ReceiptAgrees, outside, journal
<1> QED BY <1>1, <1>2, <1>3, <1>4

\* The receipts after one more: the new one and some of the old ones.
LEMMA ReceiptFacts ==
    ASSUME TypeOK, NEW c \in Command, NEW s \in Final, Receipt(c, s)
    PROVE  /\ receipts' \in Seq([cmd : Command, status : Final])
           /\ \A i \in 1..Len(receipts') :
                  \/ receipts'[i] = [cmd |-> c, status |-> s]
                  \/ \E j \in 1..Len(receipts) : receipts'[i] = receipts[j]
           /\ previews' = previews \ {c} /\ second' = second \ {c}
           /\ known' \subseteq known
           /\ \A d \in known \ known' : \E j \in 1..Len(receipts) : receipts[j].cmd = d
<1> DEFINE R == [cmd : Command, status : Final]
<1> DEFINE e == [cmd |-> c, status |-> s]
<1>1. receipts \in Seq(R) /\ e \in R /\ MaxReceipts \in Nat \ {0}
      BY CommandConstants DEF TypeOK
<1>2. previews' = previews \ {c} /\ second' = second \ {c}
      BY DEF Receipt
<1> HIDE DEF e, R
<1>3. CASE Len(receipts) >= MaxReceipts
  <2>1. receipts' = Append(Tail(receipts), e) /\ known' = known \ {receipts[1].cmd}
        BY <1>3 DEF Receipt, e
  <2>2. /\ Len(receipts) \in Nat \ {0} /\ Tail(receipts) \in Seq(R)
        /\ Len(Tail(receipts)) = Len(receipts) - 1
        /\ \A i \in 1..(Len(receipts) - 1) : Tail(receipts)[i] = receipts[i + 1]
        BY <1>1, <1>3
  <2>3. /\ receipts' \in Seq(R) /\ Len(receipts') = Len(receipts)
        /\ receipts'[Len(receipts)] = e
        /\ \A i \in 1..(Len(receipts) - 1) : receipts'[i] = receipts[i + 1]
        BY <1>1, <2>1, <2>2
  <2>4. ASSUME NEW i \in 1..Len(receipts')
        PROVE  receipts'[i] = e \/ \E j \in 1..Len(receipts) : receipts'[i] = receipts[j]
    <3>1. CASE i = Len(receipts)
          BY <2>3, <3>1
    <3>2. CASE i # Len(receipts)
      <4>1. i + 1 \in 1..Len(receipts) /\ receipts'[i] = receipts[i + 1]
        <5>1. i \in 1..Len(receipts) /\ Len(receipts) \in Nat
              BY <2>2, <2>3, Zenon
        <5>2. i \in 1..(Len(receipts) - 1) /\ i + 1 \in 1..Len(receipts)
              BY <3>2, <5>1
        <5> QED BY <2>3, <5>2
      <4> QED BY <4>1
    <3> QED BY <3>1, <3>2
  <2>5. 1 \in 1..Len(receipts)
        BY <2>2
  <2> QED BY <1>2, <2>1, <2>3, <2>4, <2>5 DEF e, R
<1>4. CASE ~(Len(receipts) >= MaxReceipts)
  <2>1. receipts' = Append(receipts, e) /\ known' = known
        BY <1>4 DEF Receipt, e
  <2>2. /\ receipts' \in Seq(R) /\ Len(receipts') = Len(receipts) + 1
        /\ Len(receipts) \in Nat /\ receipts'[Len(receipts) + 1] = e
        /\ \A i \in 1..Len(receipts) : receipts'[i] = receipts[i]
        BY <1>1, <2>1
  <2>3. \A i \in 1..Len(receipts') :
            receipts'[i] = e \/ \E j \in 1..Len(receipts) : receipts'[i] = receipts[j]
        BY <2>2
  <2> QED BY <1>2, <2>1, <2>2, <2>3 DEF e, R
<1> QED BY <1>3, <1>4

\* A receipt is written with the record's final status.
LEMMA ReceiptStep ==
    ASSUME IInv, NEW c \in Command, NEW s \in Final, Receipt(c, s),
           record[c] \in Unfinished, record'[c] = s,
           \A d \in Command : d # c => record'[d] = record[d]
    PROVE  /\ ReceiptAgrees' /\ PreviewFacts'
           /\ receipts' \in Seq([cmd : Command, status : Final])
           /\ previews' \subseteq Command /\ second' \subseteq previews'
           /\ previews' \subseteq known' /\ known' \subseteq Command
<1>1. /\ receipts' \in Seq([cmd : Command, status : Final])
      /\ \A i \in 1..Len(receipts') :
             \/ receipts'[i] = [cmd |-> c, status |-> s]
             \/ \E j \in 1..Len(receipts) : receipts'[i] = receipts[j]
      /\ previews' = previews \ {c} /\ second' = second \ {c}
      /\ known' \subseteq known
      /\ \A d \in known \ known' : \E j \in 1..Len(receipts) : receipts[j].cmd = d
      BY ReceiptFacts DEF IInv
<1>2. \A j \in 1..Len(receipts) :
          /\ receipts[j].cmd \in Command /\ receipts[j].status \in Final
          /\ record[receipts[j].cmd] = receipts[j].status
      BY OldReceipts DEF IInv
<1>3. \A j \in 1..Len(receipts) : receipts[j].cmd # c /\ receipts[j].cmd \notin previews
      BY <1>2 DEF IInv, PreviewFacts, Final, Unfinished
<1>4. ReceiptAgrees'
  <2>1. ASSUME NEW i \in 1..Len(receipts')
        PROVE  record'[receipts'[i].cmd] = receipts'[i].status
    <3>1. CASE receipts'[i] = [cmd |-> c, status |-> s]
          BY <3>1
    <3>2. ASSUME NEW j \in 1..Len(receipts), receipts'[i] = receipts[j]
          PROVE  record'[receipts'[i].cmd] = receipts'[i].status
          BY <1>2, <1>3, <3>2
    <3> QED BY <1>1, <3>1, <3>2
  <2> QED BY <2>1 DEF ReceiptAgrees
<1>5. PreviewFacts'
      BY <1>1 DEF IInv, TypeOK, PreviewFacts
<1>6. previews' \subseteq known'
  <2>1. previews \subseteq known
        BY DEF IInv, TypeOK
  <2> QED BY <1>1, <1>3, <2>1
<1> QED BY <1>1, <1>4, <1>5, <1>6 DEF IInv, TypeOK

\* A preview is cancelled in the journal and in memory.
LEMMA CancelStep ==
    ASSUME IInv, NEW c \in Command, Cancel(c)
    PROVE  IInv'
<1> USE DEF IInv
<1>1. c \in previews /\ record[c] = "accepted"
      BY DEF Cancel, PreviewFacts
<1>2. Log(c, "cancelled") /\ "cancelled" \in Allowed(record[c])
      BY <1>1 DEF Cancel, Transition, Allowed
<1>3. /\ record' \in [Command -> Status] /\ record'[c] = "cancelled"
      /\ \A d \in Command : d # c => record'[d] = record[d]
      /\ events' \in Seq(Event)
      BY <1>2, LogFacts DEF Status, Final
<1>4. Budget'
      BY <1>2, BudgetOfMove DEF Final
<1>5. /\ ReceiptAgrees' /\ PreviewFacts'
      /\ receipts' \in Seq([cmd : Command, status : Final])
      /\ previews' \subseteq Command /\ second' \subseteq previews'
      /\ previews' \subseteq known' /\ known' \subseteq Command
      BY <1>1, <1>3, ReceiptStep DEF Cancel, Final, Unfinished
<1>6. TypeOK'
      BY <1>3, <1>5 DEF TypeOK, Cancel, outside, Event
<1>7. RecordFacts'
      BY <1>1, <1>3 DEF RecordFacts, Cancel, outside
<1>8. RunFacts' /\ DownFacts'
      BY DEF RunFacts, DownFacts, Cancel, Free
<1> QED BY <1>4, <1>5, <1>6, <1>7, <1>8

-----------------------------------------------------------------------------
(* confirm *)

RunType == [cmd : Command \cup {None}, valid : BOOLEAN,
            stage : {"none", "dispatched", "sent", "replied"},
            reply : {"none", "ok", "failed", "uncertain"}]

\* The only place that hands a command to the effect: its record was accepted, so it
\* was never sent, and its preview is gone.
LEMMA DispatchStep ==
    ASSUME IInv, NEW c \in Command, Dispatch(c)
    PROVE  IInv'
<1> USE DEF IInv
<1>1. c \in previews /\ record[c] = "accepted" /\ up
      BY DEF Dispatch, Confirmable, PreviewFacts, Free
<1>2. Log(c, "executing") /\ "executing" \in Allowed(record[c])
      BY <1>1 DEF Dispatch, Transition, Allowed
<1>3. /\ record' \in [Command -> Status] /\ record'[c] = "executing"
      /\ \A d \in Command : d # c => record'[d] = record[d]
      /\ events' \in Seq(Event)
      BY <1>2, LogFacts DEF Status, Unfinished
<1>4. Budget'
      BY <1>2, BudgetOfMove
<1>5. run' \in RunType
      BY DEF Dispatch, RunType
<1>6. sends[c] = 0 /\ worker[c] = "none"
      BY <1>1 DEF RecordFacts
<1>7. TypeOK'
  <2>1. sends' \in [Command -> Nat]
        BY DEF TypeOK, Dispatch
  <2>2. /\ previews' \subseteq Command /\ second' \subseteq previews'
        /\ previews' \subseteq known' /\ known' \subseteq Command
        BY DEF TypeOK, Dispatch, Consume
  <2> QED BY <1>3, <1>5, <2>1, <2>2
             DEF TypeOK, Dispatch, Consume, outside, Event, RunType
<1>8. RecordFacts'
  <2>1. /\ sends'[c] = 1 /\ \A d \in Command : d # c => sends'[d] = sends[d]
        /\ worker' = worker /\ target' = target /\ base' = base
        BY <1>6 DEF TypeOK, Dispatch, outside
  <2> QED BY <1>3, <1>6, <2>1 DEF RecordFacts
<1>9. PreviewFacts'
      BY <1>3 DEF PreviewFacts, TypeOK, Dispatch, Consume
<1>10. DownFacts'
      BY <1>1 DEF DownFacts, Dispatch
<1>11. RunFacts'
      BY <1>1, <1>3, <1>6 DEF RunFacts, Dispatch, outside
<1>12. ReceiptAgrees'
  <2>1. \A j \in 1..Len(receipts) : receipts[j].cmd # c
        BY <1>1, OldReceipts DEF Final
  <2> QED BY <1>3, <2>1, OldReceipts DEF ReceiptAgrees, Dispatch, Consume
<1> QED BY <1>4, <1>7, <1>8, <1>9, <1>10, <1>11, <1>12

\* A step of the confirmation between its dispatch and its conclusion: its command
\* stays, and its new stage and reply agree with the worker.
LEMMA RunStep ==
    ASSUME IInv, UNCHANGED <<memory, journal, outside, sends, up>>,
           run' \in RunType, RunFacts', ~up => run' = NoRun
    PROVE  IInv'
<1> USE DEF IInv
<1>1. Budget'
      BY BudgetSame DEF journal
<1>2. TypeOK'
      BY DEF TypeOK, RunType, memory, journal, outside
<1>3. RecordFacts' /\ PreviewFacts' /\ DownFacts' /\ ReceiptAgrees'
      BY DEF RecordFacts, PreviewFacts, DownFacts, ReceiptAgrees, memory, journal, outside
<1> QED BY <1>1, <1>2, <1>3

LEMMA RunSteps ==
    ASSUME IInv,
           \/ \E reply \in {"failed", "uncertain"} : NotSent(reply)
           \/ \E reply \in {"ok", "failed", "uncertain"} : ReadReply(reply)
           \/ Doubt \/ FinishRefused \/ SessionEnds
    PROVE  IInv'
<1>1. run \in RunType /\ RunFacts /\ DownFacts /\ NoRun \in RunType
      BY DEF IInv, TypeOK, RunType, NoRun
<1>2. ASSUME NEW reply \in {"failed", "uncertain"}, NotSent(reply)
      PROVE  IInv'
  <2>1. run # NoRun /\ run.stage = "dispatched"
        BY <1>2 DEF NotSent, NoRun
  <2>2. run' = [run EXCEPT !.stage = "replied", !.reply = reply]
        BY <1>2 DEF NotSent
  <2>3. run' \in RunType /\ run'.cmd = run.cmd /\ run'.stage = "replied" /\ run'.reply = reply
        BY <1>1, <2>2 DEF RunType
  <2>4. RunFacts'
        BY <1>1, <1>2, <2>1, <2>3 DEF RunFacts, NotSent, journal, outside
  <2> QED BY <1>1, <1>2, <2>1, <2>3, <2>4, RunStep DEF NotSent, RunFacts
<1>3. ASSUME NEW reply \in {"ok", "failed", "uncertain"}, ReadReply(reply)
      PROVE  IInv'
  <2>1. run # NoRun /\ run.stage = "sent"
        BY <1>3 DEF ReadReply, NoRun
  <2>2. run' = [run EXCEPT !.stage = "replied", !.reply = reply]
        BY <1>3 DEF ReadReply
  <2>3. run' \in RunType /\ run'.cmd = run.cmd /\ run'.stage = "replied" /\ run'.reply = reply
        BY <1>1, <2>2 DEF RunType
  <2>4. RunFacts'
        BY <1>1, <1>3, <2>1, <2>3 DEF RunFacts, ReadReply, LostReply, journal, outside
  <2> QED BY <1>1, <1>3, <2>1, <2>3, <2>4, RunStep DEF ReadReply, RunFacts
<1>4. CASE Doubt
  <2>1. run # NoRun /\ run.stage = "replied"
        BY <1>4 DEF Doubt, NoRun
  <2>2. run' = [run EXCEPT !.reply = "uncertain"]
        BY <1>4 DEF Doubt
  <2>3. /\ run' \in RunType /\ run'.cmd = run.cmd /\ run'.stage = run.stage
        /\ run'.reply = "uncertain"
        BY <1>1, <2>2 DEF RunType
  <2>4. RunFacts'
        BY <1>1, <1>4, <2>1, <2>3 DEF RunFacts, Doubt, journal, outside
  <2> QED BY <1>1, <1>4, <2>1, <2>3, <2>4, RunStep DEF Doubt, RunFacts
<1>5. CASE FinishRefused
  <2>1. run' = NoRun /\ RunFacts'
        BY <1>5 DEF FinishRefused, RunFacts
  <2> QED BY <1>1, <1>5, <2>1, RunStep DEF FinishRefused
<1>6. CASE SessionEnds
  <2>1. run # NoRun /\ run' = [run EXCEPT !.valid = FALSE]
        BY <1>6 DEF SessionEnds
  <2>2. /\ run' \in RunType /\ run'.cmd = run.cmd /\ run'.stage = run.stage
        /\ run'.reply = run.reply
        BY <1>1, <2>1 DEF RunType
  <2>3. RunFacts'
        BY <1>1, <1>6, <2>1, <2>2 DEF RunFacts, SessionEnds, journal, outside
  <2> QED BY <1>1, <1>6, <2>1, <2>2, <2>3, RunStep DEF SessionEnds, RunFacts
<1> QED BY <1>2, <1>3, <1>4, <1>5, <1>6

\* The packet is written once: a command that is being dispatched has no packet yet.
LEMMA SendStep ==
    ASSUME IInv, Send
    PROVE  /\ IInv'
           /\ run.cmd \in Command /\ worker[run.cmd] = "none"
           /\ worker' = [worker EXCEPT ![run.cmd] = "packet"]
<1> USE DEF IInv
<1>1. run # NoRun /\ run.stage = "dispatched"
      BY DEF Send, NoRun
<1>2. /\ run.cmd \in Command /\ up /\ worker[run.cmd] = "none"
      /\ record[run.cmd] = "executing" /\ run.reply = "none"
      BY <1>1 DEF RunFacts
<1>3. worker' = [worker EXCEPT ![run.cmd] = "packet"]
      BY <1>2 DEF Send, TypeOK
<1>4. /\ run' \in RunType /\ run'.cmd = run.cmd /\ run'.stage = "sent" /\ run'.reply = "none"
      BY <1>2 DEF Send, TypeOK, RunType
<1>5. /\ worker'[run.cmd] = "packet" /\ \A d \in Command : d # run.cmd => worker'[d] = worker[d]
      BY <1>2, <1>3 DEF TypeOK
<1>6. Budget'
      BY BudgetSame DEF Send, journal
<1>7. TypeOK'
      BY <1>3, <1>4 DEF TypeOK, RunType, Send, memory, journal
<1>8. RecordFacts'
      BY <1>2, <1>5 DEF RecordFacts, Send, journal
<1>9. RunFacts'
      BY <1>2, <1>4, <1>5 DEF RunFacts, Send, journal
<1>10. PreviewFacts' /\ DownFacts' /\ ReceiptAgrees'
      BY <1>2 DEF PreviewFacts, DownFacts, ReceiptAgrees, Send, memory, journal
<1> QED BY <1>2, <1>3, <1>6, <1>7, <1>8, <1>9, <1>10

\* What confirm may conclude with agrees with what the worker did.
LEMMA OutcomeFacts ==
    ASSUME IInv, NEW s \in Final, run.stage = "replied", s \in Outcomes(run.cmd)
    PROVE  /\ run.cmd \in Command /\ record[run.cmd] = "executing" /\ up
           /\ s \in Allowed(record[run.cmd])
           /\ s \in {"succeeded", "failed", "unknown"}
           /\ s = "succeeded" => worker[run.cmd] = "applied"
           /\ s = "failed" => worker[run.cmd] \in {"none", "refused"}
<1>1. run # NoRun
      BY DEF NoRun
<1>2. /\ run.cmd \in Command /\ record[run.cmd] = "executing" /\ up
      /\ run.reply = "ok" => worker[run.cmd] = "applied"
      /\ run.reply = "failed" => worker[run.cmd] \in {"none", "refused"}
      BY <1>1 DEF IInv, RunFacts
<1>3. CASE run.reply = "failed"
      BY <1>2, <1>3 DEF Outcomes, Allowed
<1>4. CASE run.reply = "ok"
      BY <1>2, <1>4 DEF Outcomes, Allowed
<1>5. CASE run.reply \notin {"ok", "failed"}
      BY <1>2, <1>5 DEF Outcomes, Allowed
<1> QED BY <1>3, <1>4, <1>5

LEMMA FinishStep ==
    ASSUME IInv, NEW s \in Final, Finish(s)
    PROVE  IInv'
<1> USE DEF IInv
<1> DEFINE c == run.cmd
<1>1. /\ c \in Command /\ record[c] = "executing" /\ up
      /\ s \in Allowed(record[c])
      /\ s \in {"succeeded", "failed", "unknown"}
      /\ s = "succeeded" => worker[c] = "applied"
      /\ s = "failed" => worker[c] \in {"none", "refused"}
      BY OutcomeFacts DEF Finish
<1>2. Log(c, s) /\ Receipt(c, s) /\ run' = NoRun /\ UNCHANGED <<base, outside, sends, up>>
      BY <1>1 DEF Finish, Transition
<1> HIDE DEF c
<1>3. /\ record' \in [Command -> Status] /\ record'[c] = s
      /\ \A d \in Command : d # c => record'[d] = record[d]
      /\ events' \in Seq(Event)
      BY <1>1, <1>2, LogFacts DEF Status
<1>4. Budget'
      BY <1>1, <1>2, BudgetOfMove
<1>5. /\ ReceiptAgrees' /\ PreviewFacts'
      /\ receipts' \in Seq([cmd : Command, status : Final])
      /\ previews' \subseteq Command /\ second' \subseteq previews'
      /\ previews' \subseteq known' /\ known' \subseteq Command
      BY <1>1, <1>2, <1>3, ReceiptStep DEF Unfinished
<1>6. run' \in RunType
      BY <1>2 DEF NoRun, RunType
<1>7. TypeOK'
      BY <1>2, <1>3, <1>5, <1>6 DEF TypeOK, outside, Event, RunType
<1>8. RecordFacts'
      BY <1>1, <1>2, <1>3 DEF RecordFacts, outside
<1>9. RunFacts' /\ DownFacts'
      BY <1>1, <1>2 DEF RunFacts, DownFacts
<1> QED BY <1>4, <1>5, <1>7, <1>8, <1>9

-----------------------------------------------------------------------------
(* The worker, the router, crash and restart *)

\* Whatever the worker does, it does after the command was sent.
LEMMA WorkerStepFacts ==
    ASSUME IInv, NEW c \in Command, worker[c] \in {"packet", "sealed", "posted"}
    PROVE  record[c] \in {"executing", "unknown"}
BY DEF IInv, TypeOK, RecordFacts, Status, Unfinished, Final

\* The router's state only advances, and only the worker's steps and others move it.
LEMMA OutsideStep ==
    ASSUME IInv, UNCHANGED <<memory, journal, run, sends, up>>,
           worker' \in [Command -> {"none", "packet", "sealed", "posted", "applied", "refused"}],
           target' \in [rev : 0..MaxRevision, by : Command \cup {None}],
           target.rev <= target'.rev,
           \A c \in Command :
               \/ worker'[c] = worker[c]
               \/ /\ worker[c] \in {"packet", "sealed", "posted"}
                  /\ worker'[c] # "none"
                  /\ worker'[c] = "applied" => target.rev < target'.rev
    PROVE  IInv'
<1> USE DEF IInv
<1>1. Budget'
      BY BudgetSame DEF journal
<1>2. TypeOK'
      BY DEF TypeOK, memory, journal
<1>3. RecordFacts'
  <2>1. ASSUME NEW c \in Command
        PROVE  /\ base'[c] <= target'.rev
               /\ worker'[c] = "applied" => base'[c] < target'.rev
    <3>1. /\ base'[c] = base[c] /\ base[c] \in 0..MaxRevision /\ base[c] <= target.rev
          /\ target.rev \in 0..MaxRevision /\ target'.rev \in 0..MaxRevision
          /\ worker[c] = "applied" => base[c] < target.rev
          BY DEF TypeOK, RecordFacts, journal
    <3> QED BY <3>1, CommandConstants
  <2>2. \A c \in Command : worker'[c] # worker[c] => record[c] \in {"executing", "unknown"}
        BY WorkerStepFacts
  <2> QED BY <2>1, <2>2 DEF RecordFacts, journal
<1>4. RunFacts'
      BY DEF RunFacts, journal
<1>5. PreviewFacts' /\ DownFacts' /\ ReceiptAgrees'
      BY DEF PreviewFacts, DownFacts, ReceiptAgrees, memory, journal
<1> QED BY <1>1, <1>2, <1>3, <1>4, <1>5

LEMMA WorkerSteps ==
    ASSUME IInv, NEW c \in Command, Seal(c) \/ Refuse(c) \/ Post(c) \/ Apply(c)
    PROVE  IInv'
<1>1. /\ worker \in [Command -> {"none", "packet", "sealed", "posted", "applied", "refused"}]
      /\ target \in [rev : 0..MaxRevision, by : Command \cup {None}]
      BY DEF IInv, TypeOK
<1>2. CASE Seal(c) \/ Refuse(c) \/ Post(c)
  <2>1. PICK to \in {"sealed", "posted", "refused"} :
            /\ worker' = [worker EXCEPT ![c] = to]
            /\ worker[c] \in {"packet", "sealed", "posted"}
            /\ UNCHANGED <<memory, journal, run, sends, up, target>>
        BY <1>2 DEF Seal, Refuse, Post, WorkerStep
  <2>2. target.rev <= target'.rev
        BY <1>1, <2>1, CommandConstants
  <2> QED BY <1>1, <2>1, <2>2, OutsideStep
<1>3. CASE Apply(c)
  <2>1. /\ worker' = [worker EXCEPT ![c] = "applied"] /\ worker[c] = "posted"
        /\ UNCHANGED <<memory, journal, run, sends, up>>
        /\ target.rev < MaxRevision /\ target' = [rev |-> target.rev + 1, by |-> c]
        BY <1>3 DEF Apply, WorkerStep
  <2>2. /\ target' \in [rev : 0..MaxRevision, by : Command \cup {None}]
        /\ target.rev < target'.rev /\ target.rev <= target'.rev
        BY <1>1, <2>1, CommandConstants
  <2> QED BY <1>1, <2>1, <2>2, OutsideStep
<1> QED BY <1>2, <1>3

LEMMA OtherStep ==
    ASSUME IInv, OtherChange
    PROVE  IInv'
<1>1. /\ worker \in [Command -> {"none", "packet", "sealed", "posted", "applied", "refused"}]
      /\ target \in [rev : 0..MaxRevision, by : Command \cup {None}]
      BY DEF IInv, TypeOK
<1>2. /\ target' \in [rev : 0..MaxRevision, by : Command \cup {None}]
      /\ target.rev < target'.rev /\ target.rev <= target'.rev
      BY <1>1, CommandConstants DEF OtherChange
<1> QED BY <1>1, <1>2, OutsideStep DEF OtherChange

LEMMA CrashStep ==
    ASSUME IInv, Crash
    PROVE  IInv'
<1> USE DEF IInv
<1>1. Budget'
      BY BudgetSame DEF Crash, journal
<1>2. run' \in RunType
      BY DEF Crash, NoRun, RunType
<1>3. TypeOK'
  <2>1. receipts' \in Seq([cmd : Command, status : Final])
        BY DEF Crash
  <2> QED BY <1>2, <2>1 DEF TypeOK, Crash, RunType, journal, outside
<1>4. RecordFacts' /\ PreviewFacts' /\ RunFacts' /\ DownFacts' /\ ReceiptAgrees'
      BY DEF RecordFacts, PreviewFacts, RunFacts, DownFacts, ReceiptAgrees, Crash, journal,
             outside
<1> QED BY <1>1, <1>3, <1>4

\* Recovery gives up on every unfinished record.
LEMMA StartStep ==
    ASSUME IInv, Start
    PROVE  IInv'
<1> USE DEF IInv
<1>1. Budget' /\ events' \in Seq(Event)
      BY BudgetOfStart
<1>2. /\ run = NoRun /\ previews = {} /\ second = {} /\ known = {} /\ receipts = <<>>
      BY DEF DownFacts, Start
<1>3. TypeOK'
      BY <1>1 DEF TypeOK, Start, memory, outside, Event, Status, Final
<1>4. RecordFacts'
      BY DEF RecordFacts, TypeOK, Start, outside, UnfinishedCommands, Unfinished
<1>5. PreviewFacts' /\ RunFacts' /\ DownFacts' /\ ReceiptAgrees'
      BY <1>2 DEF PreviewFacts, RunFacts, DownFacts, ReceiptAgrees, Start, memory
<1> QED BY <1>1, <1>3, <1>4, <1>5

-----------------------------------------------------------------------------
(* The invariant *)

LEMMA InvariantStep ==
    ASSUME IInv, [Next]_vars
    PROVE  IInv'
<1>1. ASSUME NEW c \in Command, Preview(c)
      PROVE  IInv'
      BY <1>1, PreviewStep
<1>2. ASSUME NEW c \in Command, Expire(c)
      PROVE  IInv'
      BY <1>2, ForgetStep DEF IInv, TypeOK, Expire, Discard, Free
<1>3. ASSUME NEW c \in Command, Cancel(c)
      PROVE  IInv'
      BY <1>3, CancelStep
<1>4. ASSUME NEW c \in Command, OfferSecond(c)
      PROVE  IInv'
      BY <1>4, ForgetStep DEF IInv, TypeOK, OfferSecond, Free
<1>5. ASSUME NEW c \in Command, ConfirmRefused(c)
      PROVE  IInv'
      BY <1>5, ForgetStep DEF IInv, TypeOK, ConfirmRefused, Consume, Free
<1>6. ASSUME NEW c \in Command, Dispatch(c)
      PROVE  IInv'
      BY <1>6, DispatchStep
<1>7. CASE ClockRegression
      BY <1>7, ForgetStep DEF IInv, TypeOK, ClockRegression, Discard, Free
<1>8. CASE Send
      BY <1>8, SendStep
<1>9. ASSUME NEW s \in Final, Finish(s)
      PROVE  IInv'
      BY <1>9, FinishStep
<1>10. CASE \/ \E reply \in {"failed", "uncertain"} : NotSent(reply)
            \/ \E reply \in {"ok", "failed", "uncertain"} : ReadReply(reply)
            \/ Doubt \/ FinishRefused \/ SessionEnds
       BY <1>10, RunSteps
<1>11. ASSUME NEW c \in Command, Seal(c) \/ Refuse(c) \/ Post(c) \/ Apply(c)
       PROVE  IInv'
       BY <1>11, WorkerSteps
<1>12. CASE OtherChange
       BY <1>12, OtherStep
<1>13. CASE Crash
       BY <1>13, CrashStep
<1>14. CASE Start
       BY <1>14, StartStep
<1>15. CASE UNCHANGED vars
       BY <1>15, RunStep DEF vars, IInv, TypeOK, RunType, DownFacts, RunFacts, memory, journal,
                             outside
<1> QED BY <1>1, <1>2, <1>3, <1>4, <1>5, <1>6, <1>7, <1>8, <1>9, <1>10, <1>11, <1>12, <1>13,
           <1>14, <1>15 DEF Next, Authority, World

LEMMA InvariantInit == Init => IInv
<1> SUFFICES ASSUME Init PROVE IInv
    OBVIOUS
<1>1. TypeOK
  <2>1. run \in RunType /\ receipts \in Seq([cmd : Command, status : Final])
        /\ events \in Seq([cmd : Command, status : Status])
        BY DEF Init, NoRun, RunType
  <2> QED BY <2>1, CommandConstants DEF Init, TypeOK, RunType, Status
<1>2. RecordFacts /\ PreviewFacts /\ RunFacts /\ DownFacts /\ ReceiptAgrees
      BY CommandConstants DEF Init, RecordFacts, PreviewFacts, RunFacts, DownFacts, ReceiptAgrees
<1>3. Budget
  <2>1. Recorded = {} /\ Accepted = {} /\ Executing = {} /\ Len(events) = 0
        BY DEF Init, Recorded, Accepted, Executing
  <2>2. IsFiniteSet({}) /\ Cardinality({}) = 0
        BY FS_EmptySet
  <2> QED BY <2>1, <2>2, CommandConstants DEF Budget
<1> QED BY <1>1, <1>2, <1>3 DEF IInv

\* Every state the router commands reach satisfies the inductive invariant.
THEOREM CommandInvariant == Spec => []IInv
<1>1. IInv /\ [Next]_vars => IInv'
      BY InvariantStep
<1> QED BY <1>1, InvariantInit, PTL DEF Spec

\* The journal's rows, the authority's tables and the worker's states have their types;
\* a second token belongs to a preview and a preview to a known request.
THEOREM CommandTypeCorrect == Spec => []TypeOK
<1>1. IInv => TypeOK
      BY DEF IInv
<1> QED BY <1>1, CommandInvariant, PTL

\* confirm hands a command to the effect at most once, whatever previews, sessions,
\* replies and server processes are lost on the way.
THEOREM SentAtMostOnce == Spec => []AtMostOnce
<1>1. IInv => AtMostOnce
      BY DEF IInv, RecordFacts, AtMostOnce
<1> QED BY <1>1, CommandInvariant, PTL

\* _receipts never tells another outcome than the journal.
THEOREM ReceiptsAgree == Spec => []ReceiptAgrees
<1>1. IInv => ReceiptAgrees
      BY DEF IInv
<1> QED BY <1>1, CommandInvariant, PTL

\* With MAX_EVENTS three times MAX_COMMANDS, the journal has room for the outcome of
\* everything it accepted.
THEOREM JournalHasRoom == Spec => []RoomToFinish
<1>1. IInv => RoomToFinish
  <2> SUFFICES ASSUME IInv PROVE RoomToFinish
      OBVIOUS
  <2>1. /\ Cardinality(Recorded) \in Nat /\ Cardinality(Accepted) \in Nat
        /\ Cardinality(Executing) \in Nat /\ Len(events) \in Nat
        BY FiniteCounts DEF IInv, Budget, TypeOK
  <2>2. Len(events) + 2 * Cardinality(Accepted) + Cardinality(Executing) <= MaxEvents
        BY <2>1, CommandConstants DEF IInv, Budget
  <2> QED BY <2>2 DEF RoomToFinish, Accepted, Executing
<1> QED BY <1>1, CommandInvariant, PTL

-----------------------------------------------------------------------------
(* The wiring of core.py *)

\* No command is recorded as succeeded.
NoneSucceeds == \A c \in Command : record[c] # "succeeded"

\* With the observer and the effect that core.py wires (Packaged is true), no command is
\* ever recorded as succeeded, also not one that was carried out and answered "ok":
\* confirm asks for a revision past the one in the command's body, and both the observer
\* and the effect's second guard answer only at exactly that one.
THEOREM ShippedNeverSucceeds ==
    ASSUME Packaged = TRUE
    PROVE  Spec => []NoneSucceeds
<1>1. Init => NoneSucceeds
      BY DEF Init, NoneSucceeds
<1>2. IInv /\ NoneSucceeds /\ [Next]_vars => NoneSucceeds'
  <2> SUFFICES ASSUME IInv, NoneSucceeds, Next PROVE NoneSucceeds'
      BY DEF vars, journal, NoneSucceeds
  <2>0. record \in [Command -> Status]
        BY DEF IInv, TypeOK
  <2>1. ASSUME NEW c \in Command, NEW s, s # "succeeded", Log(c, s) \/ UNCHANGED record
        PROVE  NoneSucceeds'
        BY <2>0, <2>1 DEF Log, NoneSucceeds
  <2>2. ASSUME NEW c \in Command, Preview(c) \/ Cancel(c) \/ Dispatch(c)
        PROVE  NoneSucceeds'
        BY <2>1, <2>2 DEF Preview, Cancel, Dispatch, AcceptRecord, Transition, journal
  <2>3. ASSUME NEW s \in Final, Finish(s)
        PROVE  NoneSucceeds'
    <3>1. run.cmd \in Command
          BY <2>3 DEF Finish, IInv, RunFacts, NoRun
    <3>2. target.rev \in Nat /\ base[run.cmd] \in Nat
          BY <3>1, CommandConstants DEF IInv, TypeOK
    <3>3. s # "succeeded"
          BY <2>3, <3>2 DEF Finish, Outcomes, Observable, Guard
    <3> QED BY <2>1, <2>3, <3>1, <3>3 DEF Finish, Transition
  <2>4. CASE Start
        BY <2>4 DEF Start, NoneSucceeds
  <2>5. ASSUME UNCHANGED record
        PROVE  NoneSucceeds'
        BY <2>5 DEF NoneSucceeds
  <2>6. ASSUME NEW c \in Command, Expire(c) \/ OfferSecond(c) \/ ConfirmRefused(c)
                                  \/ Seal(c) \/ Refuse(c) \/ Post(c) \/ Apply(c)
        PROVE  UNCHANGED record
        BY <2>6 DEF Expire, OfferSecond, ConfirmRefused, Seal, Refuse, Post, Apply, WorkerStep,
                    journal
  <2>7. ASSUME NEW reply, NotSent(reply) \/ ReadReply(reply)
        PROVE  UNCHANGED record
        BY <2>7 DEF NotSent, ReadReply, journal
  <2>8. CASE ClockRegression \/ Send \/ Doubt \/ FinishRefused \/ OtherChange \/ SessionEnds \/ Crash
    <3>1. UNCHANGED record
          BY <2>8 DEF ClockRegression, Send, Doubt, FinishRefused, OtherChange, SessionEnds, Crash,
                      journal
    <3> QED BY <2>5, <3>1
  <2> QED BY <2>2, <2>3, <2>4, <2>5, <2>6, <2>7, <2>8 DEF Next, Authority, World
<1> QED BY <1>1, <1>2, CommandInvariant, PTL DEF Spec

-----------------------------------------------------------------------------
(* Refinement *)

Effect == [c \in Command |-> IF worker[c] = "applied" THEN 1 ELSE 0]

\* A step of the authority's memory and of its confirmation is none of the ledger.
LEMMA Stutters ==
    ASSUME UNCHANGED <<record, worker>>
    PROVE  UNCHANGED Ledger!vars
BY DEF Ledger!vars

\* An allowed move of one record is a step of the ledger.
LEMMA LogIsLedgerStep ==
    ASSUME IInv, NEW c \in Command, NEW s \in Status, Log(c, s), UNCHANGED worker,
           \/ record[c] = "none" /\ s = "accepted"
           \/ record[c] = "accepted" /\ s \in {"executing", "cancelled"}
           \/ record[c] = "executing" /\ s = "succeeded" /\ worker[c] = "applied"
           \/ record[c] = "executing" /\ s = "failed" /\ worker[c] # "applied"
           \/ record[c] = "executing" /\ s = "unknown"
    PROVE  Ledger!Next
<1>1. record' = [record EXCEPT ![c] = s] /\ Effect' = Effect /\ record \in [Command -> Status]
      BY DEF Log, Effect, IInv, TypeOK
<1>2. Ledger!Become(c, s)
      BY <1>1 DEF Ledger!Become, Effect
<1>3. CASE record[c] = "none" /\ s = "accepted"
      BY <1>2, <1>3 DEF Ledger!Next, Ledger!Accept
<1>4. CASE record[c] = "accepted" /\ s \in {"executing", "cancelled"}
      BY <1>2, <1>4 DEF Ledger!Next, Ledger!Begin, Ledger!Cancel
<1>5. CASE record[c] = "executing" /\ s = "succeeded" /\ worker[c] = "applied"
      BY <1>2, <1>5 DEF Ledger!Next, Ledger!Succeed
<1>6. CASE record[c] = "executing" /\ s = "failed" /\ worker[c] # "applied"
      BY <1>2, <1>6 DEF Ledger!Next, Ledger!Fail
<1>7. CASE record[c] = "executing" /\ s = "unknown"
  <2>1. Ledger!GiveUp({c})
        BY <1>1, <1>7 DEF Ledger!GiveUp, Ledger!Unfinished, Effect
  <2> QED BY <2>1 DEF Ledger!Next
<1> QED BY <1>3, <1>4, <1>5, <1>6, <1>7

\* The router applies a command while its record is executing, or after it was given up.
LEMMA ApplyIsLedgerStep ==
    ASSUME IInv, NEW c \in Command, Apply(c)
    PROVE  Ledger!Next
<1>1. /\ worker[c] = "posted" /\ worker' = [worker EXCEPT ![c] = "applied"]
      /\ UNCHANGED record
      BY DEF Apply, WorkerStep, journal
<1>2. record[c] \in {"executing", "unknown"}
      BY <1>1, WorkerStepFacts
<1>3. Effect[c] = 0 /\ Effect' = [Effect EXCEPT ![c] = 1]
      BY <1>1 DEF Effect, IInv, TypeOK
<1>4. Ledger!TakeEffect(c)
      BY <1>1, <1>2, <1>3 DEF Ledger!TakeEffect, Effect
<1> QED BY <1>4 DEF Ledger!Next

\* A restart gives up on every unfinished command at once, or on none.
LEMMA StartIsLedgerStep ==
    ASSUME IInv, Start
    PROVE  Ledger!Next \/ UNCHANGED Ledger!vars
<1>1. /\ record' = [c \in Command |-> IF c \in UnfinishedCommands THEN "unknown"
                                                                 ELSE record[c]]
      /\ UNCHANGED worker /\ record \in [Command -> Status]
      BY DEF Start, outside, IInv, TypeOK
<1>2. CASE UnfinishedCommands = {}
      BY <1>1, <1>2, Stutters
<1>3. CASE UnfinishedCommands # {}
  <2>1. UnfinishedCommands \in SUBSET Command
        BY DEF UnfinishedCommands
  <2>2. Ledger!GiveUp(UnfinishedCommands)
        BY <1>1, <1>3 DEF Ledger!GiveUp, Ledger!Unfinished, UnfinishedCommands, Unfinished
  <2> QED BY <2>1, <2>2 DEF Ledger!Next
<1> QED BY <1>2, <1>3

\* The journal and the router implement the command ledger: an outcome is final, a
\* success means that the router was changed by the command, a failure or cancellation
\* that it was not and never will be.
THEOREM RouterImplementsLedger == Spec => LedgerSpec
<1>1. Init => Ledger!Init
      BY DEF Init, Ledger!Init
<1>2. IInv /\ [Next]_vars => [Ledger!Next]_(Ledger!vars)
  <2> SUFFICES ASSUME IInv, [Next]_vars PROVE [Ledger!Next]_(Ledger!vars)
      OBVIOUS
  <2>1. ASSUME NEW c \in Command, Preview(c)
        PROVE  [Ledger!Next]_(Ledger!vars)
    <3>1. CASE record[c] = "none" /\ Log(c, "accepted")
          BY <2>1, <3>1, LogIsLedgerStep DEF Preview, outside, Status, Unfinished
    <3>2. CASE UNCHANGED journal
          BY <2>1, <3>2, Stutters DEF Preview, outside, journal
    <3> QED BY <2>1, <3>1, <3>2 DEF Preview, AcceptRecord
  <2>2. ASSUME NEW c \in Command, Expire(c) \/ OfferSecond(c) \/ ConfirmRefused(c)
        PROVE  UNCHANGED Ledger!vars
        BY <2>2, Stutters DEF Expire, OfferSecond, ConfirmRefused, outside, journal
  <2>3. ASSUME NEW c \in Command, Cancel(c)
        PROVE  Ledger!Next
    <3>1. record[c] = "accepted" /\ Log(c, "cancelled") /\ UNCHANGED worker
          BY <2>3 DEF Cancel, IInv, PreviewFacts, Transition, outside
    <3> QED BY <3>1, LogIsLedgerStep DEF Status, Final
  <2>4. ASSUME NEW c \in Command, Dispatch(c)
        PROVE  Ledger!Next
    <3>1. record[c] = "accepted" /\ Log(c, "executing") /\ UNCHANGED worker
          BY <2>4 DEF Dispatch, Confirmable, IInv, PreviewFacts, Transition, outside
    <3> QED BY <3>1, LogIsLedgerStep DEF Status, Unfinished
  <2>5. ASSUME NEW s \in Final, Finish(s)
        PROVE  Ledger!Next
    <3>1. /\ run.cmd \in Command /\ record[run.cmd] = "executing"
          /\ s \in {"succeeded", "failed", "unknown"}
          /\ s = "succeeded" => worker[run.cmd] = "applied"
          /\ s = "failed" => worker[run.cmd] \in {"none", "refused"}
          BY <2>5, OutcomeFacts DEF Finish
    <3>2. Log(run.cmd, s) /\ UNCHANGED worker
          BY <2>5, <3>1 DEF Finish, Transition, outside
    <3> QED BY <3>1, <3>2, LogIsLedgerStep DEF Status
  <2>6. CASE Send
    <3>1. UNCHANGED Effect /\ UNCHANGED record
          BY <2>6, SendStep DEF Effect, IInv, TypeOK, Send, journal
    <3> QED BY <3>1 DEF Effect, Ledger!vars
  <2>7. CASE \/ \E reply \in {"failed", "uncertain"} : NotSent(reply)
             \/ \E reply \in {"ok", "failed", "uncertain"} : ReadReply(reply)
             \/ Doubt \/ FinishRefused \/ SessionEnds \/ ClockRegression \/ OtherChange \/ Crash
        BY <2>7, Stutters DEF NotSent, ReadReply, Doubt, FinishRefused, SessionEnds,
                              ClockRegression, OtherChange, Crash, outside, journal
  <2>8. ASSUME NEW c \in Command, Seal(c) \/ Refuse(c) \/ Post(c)
        PROVE  UNCHANGED Ledger!vars
    <3>1. UNCHANGED Effect /\ UNCHANGED record
          BY <2>8 DEF Seal, Refuse, Post, WorkerStep, Effect, IInv, TypeOK, journal
    <3> QED BY <3>1 DEF Effect, Ledger!vars
  <2>9. ASSUME NEW c \in Command, Apply(c)
        PROVE  Ledger!Next
        BY <2>9, ApplyIsLedgerStep
  <2>10. CASE Start
        BY <2>10, StartIsLedgerStep
  <2>11. CASE UNCHANGED vars
        BY <2>11, Stutters DEF vars, journal, outside
  <2> QED BY <2>1, <2>2, <2>3, <2>4, <2>5, <2>6, <2>7, <2>8, <2>9, <2>10, <2>11
             DEF Next, Authority, World
<1> QED BY <1>1, <1>2, CommandInvariant, PTL DEF Spec, LedgerSpec, Ledger!Spec
=============================================================================
