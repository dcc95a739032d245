--------------------------- MODULE PaymentsProofs ---------------------------
(***************************************************************************)
(* What holds of payments and of their splits, for any organisations,      *)
(* members, balances that are read of them, and any number of payments.    *)
(***************************************************************************)
EXTENDS Payments, Sums, FiniteSetTheorems, TLAPS

(***************************************************************************)
(* Types.                                                                  *)
(***************************************************************************)

Member == Org \cup User

SourceState == [pc : {"idle", "send", "record", "done", "failed"}, kind : UNION Range(Kinds)]

\* What some of the members have or get.
Amounts == UNION {[D -> Nat] : D \in SUBSET Member}

JobState == [pc : {"idle"} \cup Split \cup Ended,
             amount : Nat, left : Nat, read : Nat,
             base : Amounts,
             share : Amounts,
             moved : Amounts,
             over : SUBSET Member, threw : SUBSET Member]

SaveState == [by : Source, holding : Holding, profit : Nat]

TypeOK ==
    /\ source \in [Source -> SourceState]
    /\ landed \in [Source -> Nat]
    /\ hash \subseteq Source
    /\ job \in [Source \X Org -> JobState]
    /\ profit \in [Holding -> Nat]
    /\ saves \subseteq SaveState
    /\ booked \in [Holding -> Nat]
    /\ overlap \subseteq Org
    /\ crashes \in 0..MaxCrash

(***************************************************************************)
(* The inductive invariant.                                                *)
(***************************************************************************)

\* What a split of organisation o has in memory: no more is left than the amount,
\* no batch is built before all balances are read, and one that is over was
\* transferred or threw.
JobSound(o, j) ==
    /\ j.left <= j.amount
    /\ j.read <= Len(Holders[o])
    /\ j.read < Len(Holders[o]) => j.over = {}
    /\ DOMAIN j.share \subseteq Range(Holders[o])
    /\ DOMAIN j.moved = DOMAIN j.share
    /\ j.over \subseteq DOMAIN j.share
    /\ \A m \in j.over : j.moved[m] > 0 \/ m \in j.threw
    /\ j.pc = "read" => DOMAIN j.base = Range(Holders[o])
    /\ j.pc = "children" => j.over = DOMAIN j.share

JobsSound == \A s \in Source, o \in Org : JobSound(o, job[<<s, o>>])

\* Nothing is recorded or split of money the server takes in before it came in.
FundsFirst ==
    \A s \in Source : Kind(s) # "deplan" /\ landed[s] = 0 =>
        /\ s \notin hash
        /\ source[s].pc # "record"
        /\ \A o \in Org : job[<<s, o>>].pc = "idle"

\* As long as they do not overlap and the process lives, an organisation has one
\* split at a time;
OneSplit ==
    \A o \in Org \ overlap, s, r \in Source :
        job[<<s, o>>].pc \in Split /\ job[<<r, o>>].pc \in Split => s = r

\* what it has read of the members it has still to come to is what they are to
\* get so far, with nothing of theirs under way;
StillCurrent(o, j) ==
    /\ j.pc = "load" => \A v \in saves : v.holding[1] # o
    /\ j.pc = "read" =>
           \A i \in DOMAIN Holders[o] : i > j.read =>
               /\ j.base[Holders[o][i]] = booked[<<o, Holders[o][i]>>]
               /\ \A v \in saves : v.holding # <<o, Holders[o][i]>>

ReadIsCurrent ==
    crashes = 0 => \A o \in Org \ overlap, s \in Source : StillCurrent(o, job[<<s, o>>])

\* and what is being saved is the member's whole profit.
SavesComplete ==
    crashes = 0 => \A v \in saves : v.holding[1] \notin overlap =>
        v.profit = booked[v.holding]

Inv ==
    /\ TypeOK
    /\ JobsSound
    /\ FundsFirst
    /\ OneSplit
    /\ ReadIsCurrent
    /\ SavesComplete
    /\ ProfitLostNeedsCause

(***************************************************************************)
(* Arithmetic, and the members of a batch.                                 *)
(***************************************************************************)

LEMMA PercentIsNat ==
  ASSUME NEW amount \in Nat, NEW percent \in Nat
  PROVE  Percent(amount, percent) \in Nat
<1> DEFINE n == amount * percent
<1>1. n \in Nat
  OBVIOUS
<1>2. Percent(amount, percent) = (2 * n + 100) \div 200
  BY DEF Percent
<1> HIDE DEF n
<1> QED BY <1>1, <1>2

\* A percentage is not more than the whole.
LEMMA PercentFits ==
  ASSUME NEW amount \in Nat, NEW percent \in 0..100
  PROVE  Percent(amount, percent) \in 0..amount
<1> DEFINE n == amount * percent
<1>1. n \in Nat /\ n <= 100 * amount
  <2>1. amount * percent \in Nat /\ amount * (100 - percent) \in Nat
    OBVIOUS
  <2>2. amount * percent + amount * (100 - percent) = 100 * amount
    OBVIOUS
  <2> QED BY <2>1, <2>2
<1>2. Percent(amount, percent) = (2 * n + 100) \div 200
  BY DEF Percent
<1> HIDE DEF n
<1> QED BY <1>1, <1>2

LEMMA HolderIsMember ==
  ASSUME NEW o \in Org
  PROVE  /\ Holders[o] \in Seq(Member)
         /\ Range(Holders[o]) = {Holders[o][i] : i \in DOMAIN Holders[o]}
         /\ Range(Holders[o]) \subseteq Member
         /\ \A i \in DOMAIN Holders[o] : Holders[o][i] \in Range(Holders[o])
         /\ DOMAIN Holders[o] = 1..Len(Holders[o]) /\ Len(Holders[o]) \in Nat
         /\ \A m \in Range(Holders[o]) : <<o, m>> \in Holding
         /\ \A i, k \in DOMAIN Holders[o] : Holders[o][i] = Holders[o][k] => i = k
<1>1. Holders[o] \in Seq(Member)
  BY PaymentsAssumption DEF Member
<1>2. Range(Holders[o]) = {Holders[o][i] : i \in DOMAIN Holders[o]}
  BY DEF Range
<1>3. DOMAIN Holders[o] = 1..Len(Holders[o]) /\ Len(Holders[o]) \in Nat
  BY <1>1
<1>4. Range(Holders[o]) \subseteq Member
  BY <1>1, <1>2, <1>3
<1>5. \A m \in Range(Holders[o]) : <<o, m>> \in Holding
  BY <1>4 DEF Holding, Member
<1>6. \A i, k \in DOMAIN Holders[o] : Holders[o][i] = Holders[o][k] => i = k
  BY PaymentsAssumption DEF IsInjective
<1>7. \A i \in DOMAIN Holders[o] : Holders[o][i] \in Range(Holders[o])
  BY <1>2
<1> QED BY <1>1, <1>2, <1>3, <1>4, <1>5, <1>6, <1>7

\* A batch is of members with a share whose batch is not over, and empty only
\* when there is none.
LEMMA BatchIsOfRest ==
  ASSUME NEW s \in Source, NEW o \in Org, JobSound(o, job[<<s, o>>])
  PROVE  /\ Batch(s, o) \subseteq DOMAIN job[<<s, o>>].share \ job[<<s, o>>].over
         /\ Batch(s, o) = {} => job[<<s, o>>].over = DOMAIN job[<<s, o>>].share
<1>1. Batch(s, o) \subseteq DOMAIN job[<<s, o>>].share \ job[<<s, o>>].over
  BY DEF Batch, Rest
<1>2. ASSUME Batch(s, o) = {}, NEW m \in DOMAIN job[<<s, o>>].share \ job[<<s, o>>].over
      PROVE  FALSE
  <2>0. m \in {Holders[o][i] : i \in DOMAIN Holders[o]}
    <3>1. m \in Range(Holders[o])
      BY <1>2 DEF JobSound
    <3> QED BY <3>1, HolderIsMember
  <2>1. PICK i \in DOMAIN Holders[o] : Holders[o][i] = m
    BY <2>0
  <2>2. i \in Rest(s, o)
    BY <1>2, <2>1 DEF Rest
  <2>3. Rest(s, o) \subseteq Nat
    BY HolderIsMember DEF Rest
  <2>4. PICK k \in Rest(s, o) : \A l \in Rest(s, o) : ~(l < k)
    BY <2>2, <2>3, LeastNumber
  <2>5. {l \in Rest(s, o) : l < k} = {}
    BY <2>4
  <2>6. Cardinality({l \in Rest(s, o) : l < k}) < BatchSize
    BY <2>5, FS_EmptySet, PaymentsAssumption
  <2>7. Holders[o][k] \in Batch(s, o)
    BY <2>4, <2>6 DEF Batch
  <2> QED BY <1>2, <2>7
<1> QED BY <1>1, <1>2 DEF JobSound

(***************************************************************************)
(* Init.                                                                   *)
(***************************************************************************)

LEMMA NoJobSound ==
  /\ NoJob \in JobState /\ Returned \in JobState /\ Thrown \in JobState
  /\ NoJob.pc = "idle" /\ Returned.pc = "done" /\ Thrown.pc = "failed"
  /\ \A o \in Org : JobSound(o, NoJob) /\ JobSound(o, Returned) /\ JobSound(o, Thrown)
<1>1. <<>> \in Amounts /\ DOMAIN <<>> = {}
  <2>1. <<>> \in [{} -> Nat] /\ DOMAIN <<>> = {}
    OBVIOUS
  <2> QED BY <2>1 DEF Amounts
<1>2. /\ NoJob \in JobState /\ Returned \in JobState /\ Thrown \in JobState
      /\ NoJob.pc = "idle" /\ Returned.pc = "done" /\ Thrown.pc = "failed"
  BY <1>1 DEF NoJob, Returned, Thrown, JobState, Ended
<1>3. ASSUME NEW o \in Org
      PROVE  JobSound(o, NoJob) /\ JobSound(o, Returned) /\ JobSound(o, Thrown)
  BY HolderIsMember DEF NoJob, Returned, Thrown, JobSound
<1> QED BY <1>2, <1>3

LEMMA InitInv == Init => Inv
<1> SUFFICES ASSUME Init PROVE Inv
  OBVIOUS
<1>1. TypeOK
  <2>1. source \in [Source -> SourceState]
    BY DEF Init, SourceState
  <2>2. job \in [Source \X Org -> JobState]
    BY NoJobSound DEF Init
  <2> QED BY <2>1, <2>2, PaymentsAssumption DEF Init, TypeOK
<1>2. \A s \in Source, o \in Org : job[<<s, o>>] = NoJob /\ NoJob.pc = "idle"
  BY NoJobSound DEF Init
<1>3. JobsSound
  BY <1>2, NoJobSound DEF JobsSound
<1>4. FundsFirst
  BY <1>1, <1>2 DEF Init, FundsFirst, TypeOK
<1>5. OneSplit /\ ReadIsCurrent
  BY <1>2 DEF OneSplit, ReadIsCurrent, StillCurrent, Split
<1>6. SavesComplete /\ ProfitLostNeedsCause
  BY DEF Init, SavesComplete, ProfitLostNeedsCause
<1> QED BY <1>1, <1>3, <1>4, <1>5, <1>6 DEF Inv

(***************************************************************************)
(* The money comes in.                                                     *)
(***************************************************************************)

\* Steps of a payment that begin no split.
LEMMA SourceInv ==
  ASSUME Inv, NEW s \in Source,
         \/ Accepted(s, "perform") \/ Accepted(s, "merchant") \/ Accepted(s, "newdeplan")
         \/ ComesIn(s) \/ Mints(s) \/ SourceThrows(s)
         \/ Records(s) /\ Kind(s) # "merchant"
  PROVE  Inv'
<1>1. /\ source \in [Source -> SourceState] /\ landed \in [Source -> Nat]
      /\ job \in [Source \X Org -> JobState] /\ hash \subseteq Source
  BY DEF Inv, TypeOK
<1>2. UNCHANGED <<job, profit, saves, booked, overlap, crashes>>
  BY DEF Accepted, ComesIn, Mints, SourceThrows, Records
<1>3. /\ source' \in [Source -> SourceState]
      /\ \A r \in Source : source'[r].kind = source[r].kind
      /\ \A r \in Source : source'[r].pc = "record" =>
             source[r].pc = "record" \/ (r = s /\ landed[s] > 0)
  <2>1. \/ source' = source
        \/ \E to \in {"send", "record", "done", "failed"} :
               /\ source' = [source EXCEPT ![s].pc = to]
               /\ to = "record" => landed[s] > 0
    BY DEF Accepted, ComesIn, Mints, SourceThrows, Records, SourceGoes
  <2>2. CASE source' = source
    BY <1>1, <2>2
  <2>3. ASSUME NEW to \in {"send", "record", "done", "failed"},
               source' = [source EXCEPT ![s].pc = to], to = "record" => landed[s] > 0
        PROVE  /\ source' \in [Source -> SourceState]
               /\ \A r \in Source : source'[r].kind = source[r].kind
               /\ \A r \in Source : r # s => source'[r] = source[r]
               /\ source'[s].pc = to
    BY <1>1, <2>3 DEF SourceState
  <2> QED BY <2>1, <2>2, <2>3
<1>4. /\ landed' \in [Source -> Nat]
      /\ \A r \in Source : landed'[r] = 0 => landed[r] = 0
  BY <1>1 DEF Accepted, ComesIn, Mints, SourceThrows, Records
<1>5. /\ hash' \subseteq Source
      /\ \A r \in hash' : r \in hash \/ (r = s /\ source[s].pc = "record")
  BY <1>1 DEF Accepted, ComesIn, Mints, SourceThrows, Records
<1>6. TypeOK' /\ JobsSound'
  BY <1>2, <1>3, <1>4, <1>5 DEF Inv, TypeOK, JobsSound
<1>7. FundsFirst'
  BY <1>1, <1>2, <1>3, <1>4, <1>5 DEF Inv, FundsFirst, Kind
<1>8. OneSplit' /\ ReadIsCurrent' /\ SavesComplete' /\ ProfitLostNeedsCause'
  BY <1>2 DEF Inv, OneSplit, ReadIsCurrent, StillCurrent, SavesComplete, ProfitLostNeedsCause
<1> QED BY <1>6, <1>7, <1>8 DEF Inv

\* Splits that begin, of money that is there: they overlap with those at work and
\* with what is still being saved, or find all profits complete.
LEMMA StartedInv ==
  ASSUME Inv, NEW s \in Source, NEW D \in SUBSET Org, NEW amounts \in [D -> Nat],
         Started(s, amounts),
         Kind(s) = "deplan" \/ landed[s] > 0,
         source' \in [Source -> SourceState],
         \A r \in Source : source'[r].kind = source[r].kind,
         \A r \in Source : r # s => source'[r] = source[r],
         hash' \in {hash, hash \cup {s}},
         UNCHANGED <<landed, profit, saves, booked, crashes>>
  PROVE  Inv'
<1> DEFINE Begins == {o \in D : o \in Minted /\ AmountToSplit(o, amounts[o]) >= 0}
           first(o) == [NoJob EXCEPT !.pc = "load", !.left = AmountToSplit(o, amounts[o]),
                                     !.amount = AmountToSplit(o, amounts[o])]
<1>1. /\ job \in [Source \X Org -> JobState]
      /\ landed \in [Source -> Nat] /\ hash \subseteq Source
  BY DEF Inv, TypeOK
<1>2. /\ job' = [so \in Source \X Org |->
                    IF so[1] # s \/ so[2] \notin D THEN job[so]
                    ELSE IF so[2] \notin Begins THEN Returned
                    ELSE first(so[2])]
      /\ overlap' = overlap \cup
             {o \in Begins : \/ \E r \in Source : job[<<r, o>>].pc \in Split
                             \/ \E v \in saves : v.holding[1] = o}
  BY <1>1 DEF Started
<1>3. \A o \in Begins : first(o) \in JobState /\ first(o).pc = "load" /\ JobSound(o, first(o))
  <2> SUFFICES ASSUME NEW o \in Begins
               PROVE  /\ first(o) \in JobState /\ first(o).pc = "load"
                      /\ JobSound(o, first(o))
    OBVIOUS
  <2>1. AmountToSplit(o, amounts[o]) \in Nat
    <3>1. Treasury[o] \in 0..100 /\ amounts[o] \in Nat
      BY PaymentsAssumption
    <3>2. Percent(amounts[o], Treasury[o]) \in 0..amounts[o]
      BY <3>1, PercentFits
    <3> QED BY <3>1, <3>2 DEF AmountToSplit
  <2> HIDE DEF Begins
  <2> DEFINE a == AmountToSplit(o, amounts[o])
  <2> HIDE DEF a
  <2>2. first(o) = [NoJob EXCEPT !.pc = "load", !.left = a, !.amount = a]
    BY DEF a
  <2>3. a \in Nat
    BY <2>1 DEF a
  <2> HIDE DEF first
  <2>4. first(o) \in JobState
    BY <2>2, <2>3, NoJobSound DEF JobState, Split
  <2>5. /\ first(o).pc = "load" /\ first(o).left = a /\ first(o).amount = a
        /\ first(o).read = NoJob.read /\ first(o).base = NoJob.base
        /\ first(o).share = NoJob.share /\ first(o).moved = NoJob.moved
        /\ first(o).over = NoJob.over /\ first(o).threw = NoJob.threw
    BY <2>2, NoJobSound DEF JobState
  <2>6. o \in Org
    BY DEF Begins
  <2> QED BY <2>3, <2>4, <2>5, <2>6, NoJobSound DEF JobSound
<1> HIDE DEF first
<1>4. \A r \in Source, o \in Org :
          \/ job'[<<r, o>>] = job[<<r, o>>] /\ ~(r = s /\ o \in D)
          \/ r = s /\ o \in D \ Begins /\ job'[<<r, o>>] = Returned
          \/ r = s /\ o \in Begins /\ job'[<<r, o>>] = first(o)
  BY <1>2
<1>5. job' \in [Source \X Org -> JobState]
  BY <1>1, <1>2, <1>3, NoJobSound
<1>6. TypeOK'
  BY <1>2, <1>5 DEF Inv, TypeOK
<1>7. JobsSound'
  BY <1>3, <1>4, NoJobSound DEF Inv, JobsSound
<1>8. FundsFirst'
  BY <1>1, <1>4 DEF Inv, FundsFirst, Kind
<1>9. \A r \in Source, o \in Org : o \notin overlap' =>
          \/ job'[<<r, o>>] = job[<<r, o>>]
          \/ job'[<<r, o>>] = Returned
          \/ /\ r = s /\ job'[<<r, o>>] = first(o) /\ first(o).pc = "load"
             /\ \A q \in Source : job[<<q, o>>].pc \notin Split
             /\ \A v \in saves : v.holding[1] # o
  BY <1>2, <1>3, <1>4
<1>10. OneSplit'
  <2> SUFFICES ASSUME NEW o \in Org, o \notin overlap', NEW q \in Source, NEW r \in Source,
                      job'[<<q, o>>].pc \in Split, job'[<<r, o>>].pc \in Split
               PROVE  q = r
    BY DEF OneSplit
  <2>1. o \notin overlap /\ Returned.pc \notin Split
    BY <1>2, NoJobSound DEF Split
  <2>2. CASE job'[<<q, o>>] = job[<<q, o>>] /\ job'[<<r, o>>] = job[<<r, o>>]
    BY <2>1, <2>2 DEF Inv, OneSplit
  <2> QED BY <1>9, <2>1, <2>2
<1>11. ReadIsCurrent'
  <2> SUFFICES ASSUME crashes = 0, NEW o \in Org \ overlap', NEW r \in Source
               PROVE  StillCurrent(o, job[<<r, o>>])'
    BY DEF ReadIsCurrent
  <2>1. o \notin overlap
    BY <1>2
  <2>2. CASE job'[<<r, o>>] = job[<<r, o>>]
    <3>1. StillCurrent(o, job[<<r, o>>])
      BY <2>1 DEF Inv, ReadIsCurrent
    <3>2. saves' = saves /\ booked' = booked
      OBVIOUS
    <3> HIDE DEF Begins
    <3> QED BY ONLY <2>2, <3>1, <3>2 DEF StillCurrent
  <2>3. CASE job'[<<r, o>>] = Returned
    BY <2>3, NoJobSound DEF StillCurrent
  <2>4. CASE job'[<<r, o>>] = first(o) /\ first(o).pc = "load" /\ \A v \in saves : v.holding[1] # o
    BY <2>4 DEF StillCurrent
  <2> QED BY <1>9, <2>2, <2>3, <2>4
<1>12. SavesComplete' /\ ProfitLostNeedsCause'
  BY <1>2 DEF Inv, SavesComplete, ProfitLostNeedsCause
<1> QED BY <1>6, <1>7, <1>8, <1>10, <1>11, <1>12 DEF Inv

\* A payment's money is there, and is split.
LEMMA BeginsSplitInv ==
  ASSUME Inv, NEW s \in Source,
         \/ SplitsAtOnce(s) \/ Performs(s) \/ Transfers(s)
         \/ Records(s) /\ Kind(s) = "merchant"
  PROVE  Inv'
<1>1. source \in [Source -> SourceState] /\ PaidTo[s] \in Org /\ Root \in Org
  BY PaymentsAssumption DEF Inv, TypeOK
<1>2. /\ ToPayee(s) \in [{PaidTo[s]} -> Nat] /\ {PaidTo[s]} \in SUBSET Org
      /\ WithCommission(s) \in [{PaidTo[s], Root} -> Nat] /\ {PaidTo[s], Root} \in SUBSET Org
  <2>1. Amount \in Nat /\ Fee \in 0..Amount
    BY PaymentsAssumption, PercentFits DEF Fee
  <2>2. Amount - Fee \in Nat
    BY <2>1
  <2> QED BY <1>1, <2>1, <2>2 DEF ToPayee, WithCommission
<1>3. /\ Started(s, ToPayee(s)) \/ Started(s, WithCommission(s))
      /\ UNCHANGED <<landed, profit, saves, booked, crashes>>
      /\ hash' \in {hash, hash \cup {s}}
  BY DEF SplitsAtOnce, Performs, Transfers, Records
<1>4. /\ source' \in [Source -> SourceState]
      /\ \A r \in Source : source'[r].kind = source[r].kind
      /\ \A r \in Source : r # s => source'[r] = source[r]
  <2>1. \E to \in {"record", "done"} : source' = [source EXCEPT ![s].pc = to]
    BY DEF SplitsAtOnce, Performs, Transfers, Records, SourceGoes
  <2> QED BY <1>1, <2>1 DEF SourceState
<1>5. Kind(s) = "deplan" \/ landed[s] > 0
  <2>1. CASE Records(s) /\ Kind(s) = "merchant"
    BY <2>1 DEF Records, Inv, FundsFirst, TypeOK
  <2> QED BY <2>1 DEF SplitsAtOnce, Performs, Transfers
<1> QED BY <1>2, <1>3, <1>4, <1>5, StartedInv

(***************************************************************************)
(* The split.                                                              *)
(***************************************************************************)

\* A step of a split that saves nothing.
LEMMA JobInv ==
  ASSUME Inv, NEW s \in Source, NEW o \in Org, NEW x \in JobState,
         Sets(s, o, x), job[<<s, o>>].pc \in Split, JobSound(o, x),
         crashes = 0 /\ o \notin overlap => StillCurrent(o, x),
         UNCHANGED <<source, landed, hash, profit, saves, booked, overlap, crashes>>
  PROVE  Inv'
<1>1. job \in [Source \X Org -> JobState]
  BY DEF Inv, TypeOK
<1>2. /\ job' \in [Source \X Org -> JobState]
      /\ \A r \in Source, p \in Org :
             job'[<<r, p>>] = IF r = s /\ p = o THEN x ELSE job[<<r, p>>]
  BY <1>1 DEF Sets
<1>3. TypeOK'
  BY <1>2 DEF Inv, TypeOK
<1>4. JobsSound'
  BY <1>2 DEF Inv, JobsSound
<1>5. FundsFirst'
  BY <1>2 DEF Inv, FundsFirst, Kind, Split
<1>6. OneSplit'
  BY <1>2 DEF Inv, OneSplit
<1>7. ReadIsCurrent'
  <2> SUFFICES ASSUME crashes = 0, NEW p \in Org \ overlap, NEW r \in Source
               PROVE  StillCurrent(p, job[<<r, p>>])'
    BY DEF ReadIsCurrent
  <2>1. StillCurrent(p, job'[<<r, p>>])
    BY <1>2 DEF Inv, ReadIsCurrent
  <2> QED BY <2>1 DEF StillCurrent
<1>8. SavesComplete' /\ ProfitLostNeedsCause'
  BY DEF Inv, SavesComplete, ProfitLostNeedsCause
<1> QED BY <1>3, <1>4, <1>5, <1>6, <1>7, <1>8 DEF Inv

LEMMA JobEnds ==
  ASSUME Inv, NEW s \in Source, NEW o \in Org, Sets(s, o, Returned) \/ Sets(s, o, Thrown),
         job[<<s, o>>].pc \in Split,
         UNCHANGED <<source, landed, hash, profit, saves, booked, overlap, crashes>>
  PROVE  Inv'
<1>1. StillCurrent(o, Returned) /\ StillCurrent(o, Thrown)
  BY NoJobSound DEF StillCurrent
<1> QED BY <1>1, NoJobSound, JobInv

\* The members' profits are read, all of them complete.
LEMMA LoadsInv ==
  ASSUME Inv, NEW s \in Source, NEW o \in Org, Loads(s, o)
  PROVE  Inv'
<1> DEFINE j == job[<<s, o>>]
           base == [m \in Range(Holders[o]) |-> profit[<<o, m>>]]
           x == [j EXCEPT !.pc = "read", !.base = base]
<1>1. /\ j \in JobState /\ JobSound(o, j) /\ j.pc = "load"
      /\ profit \in [Holding -> Nat]
  BY DEF Inv, TypeOK, JobsSound, Loads
<1>2. base \in Amounts /\ DOMAIN base = Range(Holders[o])
  <2>1. base \in [Range(Holders[o]) -> Nat]
    BY <1>1, HolderIsMember
  <2> QED BY <2>1, HolderIsMember DEF Amounts
<1>3. \A i \in DOMAIN Holders[o] : base[Holders[o][i]] = profit[<<o, Holders[o][i]>>]
  <2>1. \A i \in DOMAIN Holders[o] : Holders[o][i] \in Range(Holders[o])
    BY HolderIsMember
  <2> QED BY <2>1
<1>4. Sets(s, o, x)
  BY DEF Loads
<1> HIDE DEF base
<1>5. /\ x \in JobState /\ x.pc = "read" /\ x.base = base
      /\ x.amount = j.amount /\ x.left = j.left /\ x.read = j.read /\ x.share = j.share
      /\ x.moved = j.moved /\ x.over = j.over /\ x.threw = j.threw
  BY <1>1, <1>2 DEF JobState, Split
<1> HIDE DEF x
<1>6. JobSound(o, x)
  BY <1>1, <1>2, <1>5 DEF JobSound
<1>7. ASSUME crashes = 0, o \notin overlap PROVE StillCurrent(o, x)
  <2>1. \A v \in saves : v.holding[1] # o
    BY <1>1, <1>7 DEF Inv, ReadIsCurrent, StillCurrent
  <2>2. ASSUME NEW i \in DOMAIN Holders[o]
        PROVE  profit[<<o, Holders[o][i]>>] = booked[<<o, Holders[o][i]>>]
    <3>1. <<o, Holders[o][i]>> \in Holding
      BY HolderIsMember
    <3>2. \A v \in saves : v.holding # <<o, Holders[o][i]>>
      BY <2>1
    <3> QED BY <1>7, <3>1, <3>2 DEF Inv, ProfitLostNeedsCause
  <2> QED BY <1>3, <1>5, <2>1, <2>2 DEF StillCurrent
<1>8. j.pc \in Split
  BY <1>1 DEF Split
<1> QED BY <1>4, <1>5, <1>6, <1>7, <1>8, JobInv DEF Loads

\* A batch lands, returns or throws.
LEMMA BatchInv ==
  ASSUME Inv, NEW s \in Source, NEW o \in Org,
         BatchLands(s, o) \/ BatchReturns(s, o) \/ BatchThrows(s, o)
  PROVE  Inv'
<1> DEFINE j == job[<<s, o>>]
<1>1. /\ j \in JobState /\ JobSound(o, j) /\ j.pc = "read" /\ j.pc \in Split
      /\ j.read = Len(Holders[o])
  BY DEF Inv, TypeOK, JobsSound, BatchLands, BatchReturns, BatchThrows, Sending, Split
<1>2. Batch(s, o) \subseteq DOMAIN j.share /\ Batch(s, o) \subseteq Member
  <2>1. DOMAIN j.share \subseteq Member
    BY <1>1, HolderIsMember DEF JobSound
  <2> QED BY <1>1, <2>1, BatchIsOfRest
<1>3. crashes = 0 /\ o \notin overlap => StillCurrent(o, j)
  BY DEF Inv, ReadIsCurrent
<1>4. CASE BatchLands(s, o)
  <2> DEFINE moved == [m \in DOMAIN j.moved |->
                          j.moved[m] + (IF m \in Batch(s, o) THEN 1 ELSE 0)]
             x == [j EXCEPT !.moved = moved]
  <2>1. Sets(s, o, x)
    BY <1>4 DEF BatchLands
  <2>2. /\ moved \in Amounts /\ DOMAIN moved = DOMAIN j.moved
        /\ \A m \in DOMAIN j.moved : j.moved[m] > 0 => moved[m] > 0
    BY <1>1 DEF JobState, Amounts
  <2> HIDE DEF moved
  <2>3. /\ x \in JobState /\ x.pc = "read" /\ x.base = j.base /\ x.moved = moved
        /\ x.amount = j.amount /\ x.left = j.left /\ x.read = j.read /\ x.share = j.share
        /\ x.over = j.over /\ x.threw = j.threw
    BY <1>1, <2>2 DEF JobState
  <2> HIDE DEF x
  <2>4. JobSound(o, x)
    BY <1>1, <2>2, <2>3 DEF JobSound
  <2>5. crashes = 0 /\ o \notin overlap => StillCurrent(o, x)
    BY <1>1, <1>3, <2>3 DEF StillCurrent
  <2> QED BY <1>1, <1>4, <2>1, <2>3, <2>4, <2>5, JobInv DEF BatchLands
<1>5. CASE BatchReturns(s, o) \/ BatchThrows(s, o)
  <2>1. PICK more \in SUBSET Batch(s, o) :
            /\ Sets(s, o, [j EXCEPT !.over = j.over \cup Batch(s, o),
                                    !.threw = j.threw \cup more])
            /\ \A m \in Batch(s, o) : j.moved[m] > 0 \/ m \in more
    <3>1. CASE BatchReturns(s, o)
      <4>2. Sets(s, o, [j EXCEPT !.over = j.over \cup Batch(s, o)])
        BY <3>1 DEF BatchReturns
      <4>3. \A m \in Batch(s, o) : j.moved[m] > 0
        BY <3>1 DEF BatchReturns
      <4>1. [j EXCEPT !.over = j.over \cup Batch(s, o)] =
                [j EXCEPT !.over = j.over \cup Batch(s, o), !.threw = j.threw \cup {}]
        BY <1>1 DEF JobState
      <4>4. Sets(s, o, [j EXCEPT !.over = j.over \cup Batch(s, o), !.threw = j.threw \cup {}])
        BY <4>1, <4>2
      <4> WITNESS {} \in SUBSET Batch(s, o)
      <4> QED BY <4>3, <4>4
    <3>2. CASE BatchThrows(s, o)
      <4>1. Sets(s, o, [j EXCEPT !.over = j.over \cup Batch(s, o),
                                 !.threw = j.threw \cup Batch(s, o)])
        BY <3>2 DEF BatchThrows
      <4> QED BY <4>1
    <3> QED BY <1>5, <3>1, <3>2
  <2> DEFINE x == [j EXCEPT !.over = j.over \cup Batch(s, o), !.threw = j.threw \cup more]
  <2>2. Sets(s, o, x)
    BY <2>1
  <2>3. /\ x \in JobState /\ x.pc = "read" /\ x.base = j.base /\ x.moved = j.moved
        /\ x.amount = j.amount /\ x.left = j.left /\ x.read = j.read /\ x.share = j.share
        /\ x.over = j.over \cup Batch(s, o) /\ x.threw = j.threw \cup more
    BY <1>1, <1>2 DEF JobState
  <2> HIDE DEF x
  <2>4. JobSound(o, x)
    BY <1>1, <1>2, <2>1, <2>3 DEF JobSound
  <2>5. crashes = 0 /\ o \notin overlap => StillCurrent(o, x)
    BY <1>1, <1>3, <2>3 DEF StillCurrent
  <2> QED BY <1>1, <1>5, <2>2, <2>3, <2>4, <2>5, JobInv DEF BatchReturns, BatchThrows
<1> QED BY <1>4, <1>5

\* After the last batch; and the end of a split.
LEMMA EndsInv ==
  ASSUME Inv, NEW s \in Source, NEW o \in Org,
         BeginsChildren(s, o) \/ Returns(s, o) \/ Throws(s, o)
  PROVE  Inv'
<1> DEFINE j == job[<<s, o>>]
<1>1. j \in JobState /\ JobSound(o, j) /\ j.pc \in Split
  BY DEF Inv, TypeOK, JobsSound, BeginsChildren, Returns, Throws, Sending, Split
<1>2. CASE BeginsChildren(s, o)
  <2> DEFINE x == [j EXCEPT !.pc = "children"]
  <2>1. Sets(s, o, x) /\ j.over = DOMAIN j.share
    BY <1>1, <1>2, BatchIsOfRest DEF BeginsChildren
  <2>2. /\ x \in JobState /\ x.pc = "children" /\ x.base = j.base /\ x.moved = j.moved
        /\ x.amount = j.amount /\ x.left = j.left /\ x.read = j.read /\ x.share = j.share
        /\ x.over = j.over /\ x.threw = j.threw
    BY <1>1 DEF JobState, Split
  <2> HIDE DEF x
  <2>3. JobSound(o, x) /\ StillCurrent(o, x)
    BY <1>1, <2>1, <2>2 DEF JobSound, StillCurrent
  <2> QED BY <1>1, <1>2, <2>1, <2>2, <2>3, JobInv DEF BeginsChildren
<1>3. CASE Returns(s, o) \/ Throws(s, o)
  BY <1>1, <1>3, JobEnds DEF Returns, Throws
<1> QED BY <1>2, <1>3

\* A member that is an organisation splits what it was to get.
LEMMA ForwardsInv ==
  ASSUME Inv, NEW s \in Source, NEW o \in Org, NEW c \in Org, Forwards(s, o, c)
  PROVE  Inv'
<1> DEFINE j == job[<<s, o>>]
           amounts == [child \in {c} |-> j.share[child]]
<1>1. /\ j \in JobState /\ j.pc = "children" /\ c \in DOMAIN j.share
      /\ source \in [Source -> SourceState] /\ landed \in [Source -> Nat]
  BY DEF Inv, TypeOK, Forwards, Children
<1>2. j.share[c] \in Nat
  BY <1>1 DEF JobState, Amounts
<1>3. amounts \in [{c} -> Nat] /\ {c} \in SUBSET Org
  BY <1>2
<1>4. Kind(s) = "deplan" \/ landed[s] > 0
  BY <1>1 DEF Inv, FundsFirst
<1>5. /\ Started(s, amounts)
      /\ UNCHANGED <<source, landed, hash, profit, saves, booked, crashes>>
  BY DEF Forwards
<1> HIDE DEF amounts
<1> QED BY <1>1, <1>3, <1>4, <1>5, StartedInv

LEMMA JobNumbers ==
  ASSUME NEW j \in JobState
  PROVE  j.read \in Nat /\ j.left \in Nat /\ j.amount \in Nat
  BY DEF JobState

\* A member is passed over, or lowering his share throws.
LEMMA PassedOverInv ==
  ASSUME Inv, NEW s \in Source, NEW o \in Org, job[<<s, o>>].pc = "read",
         \/ Sets(s, o, Thrown)
         \/ /\ job[<<s, o>>].read < Len(Holders[o])
            /\ Sets(s, o, [job[<<s, o>>] EXCEPT !.read = job[<<s, o>>].read + 1]),
         UNCHANGED <<source, landed, hash, profit, saves, booked, overlap, crashes>>
  PROVE  Inv'
<1> DEFINE j == job[<<s, o>>]
           x == [j EXCEPT !.read = j.read + 1]
<1>1. j \in JobState /\ JobSound(o, j) /\ j.pc \in Split
  BY DEF Inv, TypeOK, JobsSound, Split
<1>2. CASE Sets(s, o, Thrown)
  BY <1>1, <1>2, JobEnds
<1>3. CASE j.read < Len(Holders[o]) /\ Sets(s, o, x)
  <2>0. j.read \in Nat /\ j.read + 1 \in Nat
    BY <1>1, JobNumbers
  <2>1. /\ x \in JobState /\ x.pc = "read" /\ x.base = j.base /\ x.moved = j.moved
        /\ x.amount = j.amount /\ x.left = j.left /\ x.read = j.read + 1 /\ x.share = j.share
        /\ x.over = j.over /\ x.threw = j.threw /\ j.read \in Nat
    BY <1>1, <2>0 DEF JobState
  <2> HIDE DEF x
  <2>2. JobSound(o, x)
    <3>1. x.read <= Len(Holders[o])
      BY <1>3, <2>0, <2>1, HolderIsMember
    <3> QED BY <1>1, <2>1, <3>1 DEF JobSound
  <2>3. \A i \in DOMAIN Holders[o] : i > x.read => i > j.read
    BY <2>1, HolderIsMember
  <2>4. crashes = 0 /\ o \notin overlap => StillCurrent(o, x)
    BY <2>1, <2>3 DEF Inv, ReadIsCurrent, StillCurrent
  <2> QED BY <1>1, <1>3, <2>1, <2>2, <2>4, JobInv
<1> QED BY <1>2, <1>3

\* What is left, lowered by a share that fits.
LEMMA ShareFits ==
  ASSUME NEW amount \in Nat, NEW left \in Nat
  PROVE  /\ Lowered(amount, left) \in Nat
         /\ amount - Lowered(amount, left) \in 0..left
  BY DEF Lowered

LEMMA WithIsFunction ==
  ASSUME NEW f \in Amounts, NEW m \in Member,
         NEW value \in Nat
  PROVE  /\ With(f, m, value) \in Amounts
         /\ DOMAIN With(f, m, value) = DOMAIN f \cup {m}
         /\ \A n \in DOMAIN f : n # m => With(f, m, value)[n] = f[n]
         /\ With(f, m, value)[m] = value
<1>1. DOMAIN f \in SUBSET Member /\ f \in [DOMAIN f -> Nat]
  BY DEF Amounts
<1>2. With(f, m, value) \in [DOMAIN f \cup {m} -> Nat]
  BY <1>1 DEF With
<1>3. DOMAIN f \cup {m} \in SUBSET Member
  BY <1>1
<1>4. With(f, m, value) \in Amounts
  BY <1>2, <1>3 DEF Amounts
<1> QED BY <1>4 DEF With

\* A member gets a share, which is added to the profit that was read.
LEMMA ShareInv ==
  ASSUME Inv, NEW s \in Source, NEW o \in Org, NEW share \in Nat,
         job[<<s, o>>].pc = "read", job[<<s, o>>].read < Len(Holders[o]),
         share <= job[<<s, o>>].left,
         Sets(s, o, [job[<<s, o>>] EXCEPT
             !.read = job[<<s, o>>].read + 1,
             !.left = job[<<s, o>>].left - share,
             !.share = With(job[<<s, o>>].share, NextHolder(s, o), share),
             !.moved = With(job[<<s, o>>].moved, NextHolder(s, o), 0)]),
         NextHolder(s, o) \notin job[<<s, o>>].over,
         saves' = saves \cup {[by |-> s, holding |-> <<o, NextHolder(s, o)>>,
                               profit |-> job[<<s, o>>].base[NextHolder(s, o)] + share]},
         booked' = [booked EXCEPT ![<<o, NextHolder(s, o)>>] =
                        booked[<<o, NextHolder(s, o)>>] + share],
         UNCHANGED <<source, landed, hash, profit, overlap, crashes>>
  PROVE  Inv'
<1> DEFINE j == job[<<s, o>>]
           m == NextHolder(s, o)
           x == [j EXCEPT !.read = j.read + 1, !.left = j.left - share,
                          !.share = With(j.share, m, share), !.moved = With(j.moved, m, 0)]
           new == [by |-> s, holding |-> <<o, m>>, profit |-> j.base[m] + share]
<1>1. /\ j \in JobState /\ JobSound(o, j) /\ j.pc \in Split
      /\ job \in [Source \X Org -> JobState] /\ booked \in [Holding -> Nat]
  BY DEF Inv, TypeOK, JobsSound, Split
<1>0. j.read \in Nat /\ j.left \in Nat /\ j.amount \in Nat
  BY <1>1, JobNumbers
<1>2. j.read + 1 \in DOMAIN Holders[o] /\ m = Holders[o][j.read + 1]
  BY <1>0, HolderIsMember DEF NextHolder
<1>3. m \in Range(Holders[o]) /\ m \in Member /\ <<o, m>> \in Holding
  BY <1>2, HolderIsMember
<1>4. j.base[m] \in Nat
  BY <1>1, <1>3 DEF JobSound, JobState, Amounts
<1>5. /\ saves' = saves \cup {new} /\ new \in SaveState
      /\ new.holding = <<o, m>> /\ new.profit = j.base[m] + share
  BY <1>3, <1>4 DEF SaveState
<1>6. /\ booked' \in [Holding -> Nat]
      /\ booked'[<<o, m>>] = booked[<<o, m>>] + share
      /\ \A h \in Holding : h # <<o, m>> => booked'[h] = booked[h]
  BY <1>1, <1>3
<1>7. Sets(s, o, x) /\ m \notin j.over
  OBVIOUS
<1> HIDE DEF m, new
<1>8. /\ x \in JobState /\ x.pc = "read" /\ x.base = j.base /\ x.amount = j.amount
      /\ x.read = j.read + 1 /\ x.left = j.left - share
      /\ x.share = With(j.share, m, share) /\ x.moved = With(j.moved, m, 0)
      /\ x.over = j.over /\ x.threw = j.threw
  <2>1. j.left - share \in Nat /\ j.read + 1 \in Nat
    BY <1>0
  <2>2. /\ With(j.share, m, share) \in Amounts
        /\ With(j.moved, m, 0) \in Amounts
    BY <1>1, <1>3, WithIsFunction DEF JobState
  <2> QED BY <1>1, <2>1, <2>2 DEF JobState
<1> HIDE DEF x
<1>9. JobSound(o, x)
  <2>1. /\ DOMAIN x.share = DOMAIN j.share \cup {m}
        /\ DOMAIN x.moved = DOMAIN j.moved \cup {m}
        /\ \A n \in DOMAIN j.moved : n # m => x.moved[n] = j.moved[n]
    <3>1. j.share \in Amounts /\ j.moved \in Amounts
      BY <1>1 DEF JobState
    <3>2. DOMAIN With(j.share, m, share) = DOMAIN j.share \cup {m}
      BY <1>3, <3>1, WithIsFunction
    <3>3. /\ DOMAIN With(j.moved, m, 0) = DOMAIN j.moved \cup {m}
          /\ \A n \in DOMAIN j.moved : n # m => With(j.moved, m, 0)[n] = j.moved[n]
      BY DEF With
    <3> QED BY <1>8, <3>2, <3>3
  <2>2. x.left <= x.amount /\ x.read <= Len(Holders[o])
    <3>1. j.left <= j.amount
      BY <1>1 DEF JobSound
    <3> QED BY <1>0, <1>2, <1>8, <3>1, HolderIsMember
  <2> QED BY <1>1, <1>3, <1>7, <1>8, <2>1, <2>2 DEF JobSound
<1>10. \A r \in Source, p \in Org :
           job'[<<r, p>>] = IF r = s /\ p = o THEN x ELSE job[<<r, p>>]
  BY <1>1, <1>7 DEF Sets
<1>11. TypeOK'
  <2>1. job' \in [Source \X Org -> JobState]
    BY <1>1, <1>7, <1>8 DEF Sets
  <2> QED BY <1>5, <1>6, <2>1 DEF Inv, TypeOK
<1>12. JobsSound' /\ FundsFirst' /\ OneSplit'
  <2>1. JobsSound'
    BY <1>9, <1>10 DEF Inv, JobsSound
  <2>2. FundsFirst'
    BY <1>1, <1>10 DEF Inv, FundsFirst, Kind, Split
  <2>3. OneSplit'
    BY <1>1, <1>8, <1>10 DEF Inv, OneSplit
  <2> QED BY <2>1, <2>2, <2>3
<1>13. ASSUME crashes = 0, o \notin overlap
       PROVE  /\ j.base[m] = booked[<<o, m>>]
              /\ \A v \in saves : v.holding # <<o, m>>
  <2>1. j.read + 1 > j.read
    BY <1>0
  <2>2. StillCurrent(o, j) /\ j.pc = "read"
    BY <1>13 DEF Inv, ReadIsCurrent
  <2>3. \A i \in DOMAIN Holders[o] : i > j.read =>
            /\ j.base[Holders[o][i]] = booked[<<o, Holders[o][i]>>]
            /\ \A v \in saves : v.holding # <<o, Holders[o][i]>>
    BY <2>2 DEF StillCurrent
  <2> HIDE DEF j
  <2> QED BY <1>2, <2>1, <2>3
<1>14. ReadIsCurrent'
  <2> SUFFICES ASSUME crashes = 0, NEW p \in Org \ overlap, NEW r \in Source
               PROVE  StillCurrent(p, job[<<r, p>>])'
    BY DEF ReadIsCurrent
  <2>1. CASE p = o /\ r = s
    <3>1. \A i \in DOMAIN Holders[o] : i > x.read =>
              i > j.read /\ Holders[o][i] # m /\ <<o, Holders[o][i]>> \in Holding
      <4> SUFFICES ASSUME NEW i \in DOMAIN Holders[o], i > x.read
                   PROVE  /\ i > j.read /\ Holders[o][i] # m
                          /\ <<o, Holders[o][i]>> \in Holding
        OBVIOUS
      <4>1. i \in Nat
        BY HolderIsMember
      <4>2. i > j.read + 1
        BY <1>8
      <4>3. i > j.read /\ i # j.read + 1
        BY <1>0, <4>1, <4>2
      <4>4. Holders[o][i] # m
        BY <1>2, <4>3, HolderIsMember
      <4> QED BY <4>3, <4>4, HolderIsMember
    <3>2. \A i \in DOMAIN Holders[o] : i > j.read =>
              /\ j.base[Holders[o][i]] = booked[<<o, Holders[o][i]>>]
              /\ \A v \in saves : v.holding # <<o, Holders[o][i]>>
      BY <2>1 DEF Inv, ReadIsCurrent, StillCurrent
    <3>3. \A i \in DOMAIN Holders[o] : i > x.read =>
              /\ x.base[Holders[o][i]] = booked'[<<o, Holders[o][i]>>]
              /\ \A v \in saves' : v.holding # <<o, Holders[o][i]>>
      <4> SUFFICES ASSUME NEW i \in DOMAIN Holders[o], i > x.read
                   PROVE  /\ x.base[Holders[o][i]] = booked'[<<o, Holders[o][i]>>]
                          /\ \A v \in saves' : v.holding # <<o, Holders[o][i]>>
        OBVIOUS
      <4> HIDE DEF j
      <4>1. i > j.read /\ <<o, Holders[o][i]>> \in Holding
            /\ <<o, Holders[o][i]>> # <<o, m>>
        BY <3>1
      <4>2. booked'[<<o, Holders[o][i]>>] = booked[<<o, Holders[o][i]>>]
        BY <1>6, <4>1
      <4>3. \A v \in saves' : v.holding # <<o, Holders[o][i]>>
        BY <1>5, <3>2, <4>1
      <4> QED BY <1>8, <3>2, <4>1, <4>2, <4>3
    <3> QED BY <1>8, <1>10, <2>1, <3>3 DEF StillCurrent
  <2>2. CASE p = o /\ r # s
    <3>1. job'[<<r, p>>].pc \notin Split
      BY <1>1, <1>10, <2>2 DEF Inv, OneSplit
    <3> QED BY <3>1 DEF StillCurrent, Split
  <2>3. CASE p # o
    <3>1. /\ new.holding[1] = o /\ \A n : new.holding # <<p, n>>
          /\ \A i \in DOMAIN Holders[p] :
                 booked'[<<p, Holders[p][i]>>] = booked[<<p, Holders[p][i]>>]
      BY <1>5, <1>6, <2>3, HolderIsMember
    <3>2. StillCurrent(p, job'[<<r, p>>])
      BY <1>10, <2>3 DEF Inv, ReadIsCurrent
    <3> QED BY <1>5, <2>3, <3>1, <3>2 DEF StillCurrent
  <2> QED BY <2>1, <2>2, <2>3
<1>15. SavesComplete'
  <2> SUFFICES ASSUME crashes = 0, NEW v \in saves', v.holding[1] \notin overlap
               PROVE  v.profit = booked'[v.holding]
    BY DEF SavesComplete
  <2>1. CASE v = new
    <3>1. new.holding[1] = o
      BY <1>5
    <3> QED BY <1>5, <1>6, <1>13, <2>1, <3>1
  <2>2. CASE v \in saves
    <3>1. v.holding \in Holding /\ v.profit = booked[v.holding]
      BY <2>2 DEF Inv, TypeOK, SaveState, SavesComplete
    <3>2. v.holding # <<o, m>>
      BY <1>13, <2>2
    <3> QED BY <1>6, <3>1, <3>2
  <2> QED BY <1>5, <2>1, <2>2
<1>16. ProfitLostNeedsCause'
  BY <1>5, <1>6 DEF Inv, ProfitLostNeedsCause
<1> QED BY <1>11, <1>12, <1>14, <1>15, <1>16 DEF Inv

LEMMA SharesInv ==
  ASSUME Inv, NEW s \in Source, NEW o \in Org, NEW reading \in Readings, Shares(s, o, reading)
  PROVE  Inv'
<1> DEFINE j == job[<<s, o>>]
           m == NextHolder(s, o)
           amount == Percent(j.amount, reading)
           share == amount - Lowered(amount, j.left)
<1>1. /\ j \in JobState /\ JobSound(o, j) /\ j.pc = "read" /\ j.read < Len(Holders[o])
      /\ UNCHANGED <<source, landed, hash, profit, overlap, crashes>>
  BY DEF Inv, TypeOK, JobsSound, Shares
<1>2. j.read \in Nat /\ j.left \in Nat /\ j.amount \in Nat
  BY <1>1, JobNumbers
<1>3. amount \in Nat
  BY <1>2, PercentIsNat, PaymentsAssumption
<1>4. share \in 0..j.left
  <2> HIDE DEF amount
  <2> QED BY <1>2, <1>3, ShareFits
<1>5. CASE reading = 0 \/ Lowered(amount, j.left) > MaxDepth
  BY <1>1, <1>5, PassedOverInv DEF Shares
<1>6. CASE reading # 0 /\ ~(Lowered(amount, j.left) > MaxDepth)
  <2>1. /\ Sets(s, o, [j EXCEPT !.read = j.read + 1, !.left = j.left - share,
                                !.share = With(j.share, m, share),
                                !.moved = With(j.moved, m, 0)])
        /\ saves' = saves \cup {[by |-> s, holding |-> <<o, m>>,
                                 profit |-> j.base[m] + share]}
        /\ booked' = [booked EXCEPT ![<<o, m>>] = booked[<<o, m>>] + share]
    BY <1>6 DEF Shares
  <2>2. share \in Nat /\ share <= j.left
    BY <1>2, <1>4
  <2>3. m \notin j.over
    BY <1>1 DEF JobSound
  <2> HIDE DEF amount, share
  <2> QED BY <1>1, <2>1, <2>2, <2>3, ShareInv
<1> QED BY <1>5, <1>6

(***************************************************************************)
(* Saves and crashes.                                                      *)
(***************************************************************************)

LEMMA SavesInv ==
  ASSUME Inv, NEW v \in saves, Saves(v)
  PROVE  Inv'
<1>1. /\ v \in SaveState /\ v.holding \in Holding /\ v.profit \in Nat
      /\ profit \in [Holding -> Nat]
  BY DEF Inv, TypeOK, SaveState
<1>2. /\ profit' = [profit EXCEPT ![v.holding] = v.profit] /\ saves' = saves \ {v}
      /\ UNCHANGED <<source, landed, hash, job, booked, overlap, crashes>>
  BY DEF Saves
<1>3. TypeOK'
  BY <1>1, <1>2 DEF Inv, TypeOK
<1>4. JobsSound' /\ FundsFirst' /\ OneSplit'
  BY <1>2 DEF Inv, JobsSound, FundsFirst, Kind, OneSplit
<1>5. ReadIsCurrent' /\ SavesComplete'
  BY <1>2 DEF Inv, ReadIsCurrent, StillCurrent, SavesComplete
<1>6. ProfitLostNeedsCause'
  <2> SUFFICES ASSUME NEW h \in Holding, crashes = 0, h[1] \notin overlap,
                      \A w \in saves \ {v} : w.holding # h
               PROVE  profit'[h] = booked[h]
    BY <1>2 DEF ProfitLostNeedsCause, Inv, TypeOK
  <2>1. CASE h = v.holding
    BY <1>1, <1>2, <2>1 DEF Inv, SavesComplete
  <2>2. CASE h # v.holding
    BY <1>1, <1>2, <2>2 DEF Inv, ProfitLostNeedsCause
  <2> QED BY <2>1, <2>2
<1> QED BY <1>3, <1>4, <1>5, <1>6 DEF Inv

LEMMA CrashInv == ASSUME Inv, Crash PROVE Inv'
<1>1. /\ source \in [Source -> SourceState] /\ job \in [Source \X Org -> JobState]
      /\ crashes \in Nat /\ crashes < MaxCrash /\ crashes' = crashes + 1 /\ saves' = {}
      /\ UNCHANGED <<landed, hash, profit, booked, overlap>>
  BY PaymentsAssumption DEF Inv, TypeOK, Crash
<1>2. /\ source' \in [Source -> SourceState]
      /\ \A s \in Source : /\ source'[s].kind = source[s].kind
                           /\ source'[s].pc = source[s].pc \/ source'[s].pc = "failed"
  BY <1>1 DEF Crash, SourceState
<1>3. job' = [so \in Source \X Org |->
                 IF job[so].pc \in Split THEN Thrown ELSE job[so]]
  BY <1>1 DEF Crash
<1>4. \A s \in Source, o \in Org :
          job'[<<s, o>>] = IF job[<<s, o>>].pc \in Split THEN Thrown ELSE job[<<s, o>>]
  BY <1>3
<1>5. job' \in [Source \X Org -> JobState] /\ crashes' > 0
  BY <1>1, <1>3, NoJobSound
<1>6. TypeOK'
  BY <1>1, <1>2, <1>5, PaymentsAssumption DEF Inv, TypeOK
<1>7. JobsSound'
  BY <1>4, NoJobSound DEF Inv, JobsSound
<1>8. FundsFirst'
  BY <1>1, <1>2, <1>4 DEF Inv, FundsFirst, Kind, Split
<1>9. OneSplit'
  <2>1. \A s \in Source, o \in Org : job'[<<s, o>>].pc \notin Split
    BY <1>4, NoJobSound DEF Split
  <2> QED BY <2>1 DEF OneSplit
<1>10. ReadIsCurrent' /\ SavesComplete' /\ ProfitLostNeedsCause'
  BY <1>5 DEF ReadIsCurrent, SavesComplete, ProfitLostNeedsCause
<1> QED BY <1>6, <1>7, <1>8, <1>9, <1>10 DEF Inv

LEMMA NextInv == ASSUME Inv, [Next]_vars PROVE Inv'
<1>1. CASE UNCHANGED vars
  <2> USE <1>1 DEF vars, Inv
  <2>1. TypeOK' /\ JobsSound'
    BY DEF TypeOK, JobsSound
  <2>2. FundsFirst' /\ OneSplit'
    BY DEF FundsFirst, Kind, OneSplit
  <2>3. ReadIsCurrent' /\ SavesComplete' /\ ProfitLostNeedsCause'
    BY DEF ReadIsCurrent, StillCurrent, SavesComplete, ProfitLostNeedsCause
  <2> QED BY <2>1, <2>2, <2>3
<1>2. ASSUME NEW s \in Source,
             \/ PerformPayment(s) \/ HandleMerchantPayment(s) \/ HandleNewDeplanPayment(s)
             \/ SplitsAtOnce(s) \/ ComesIn(s) \/ SourceStep(s)
      PROVE  Inv'
  <2>1. CASE PerformPayment(s) \/ HandleMerchantPayment(s) \/ HandleNewDeplanPayment(s)
    BY <2>1, SourceInv DEF PerformPayment, HandleMerchantPayment, HandleNewDeplanPayment
  <2>2. CASE ComesIn(s) \/ Mints(s) \/ SourceThrows(s)
    BY <2>2, SourceInv
  <2>3. CASE SplitsAtOnce(s) \/ Performs(s) \/ Transfers(s)
    BY <2>3, BeginsSplitInv
  <2>4. CASE Records(s)
    BY <2>4, SourceInv, BeginsSplitInv
  <2> QED BY <1>2, <2>1, <2>2, <2>3, <2>4 DEF SourceStep
<1>3. ASSUME NEW s \in Source, NEW o \in Org, JobStep(s, o) \/ BatchLands(s, o)
      PROVE  Inv'
  BY <1>3, LoadsInv, SharesInv, BatchInv, EndsInv, ForwardsInv DEF JobStep
<1>4. ASSUME NEW v \in saves, Saves(v) PROVE Inv'
  BY <1>4, SavesInv
<1>5. CASE Crash
  BY <1>5, CrashInv
<1> QED BY <1>1, <1>2, <1>3, <1>4, <1>5 DEF Next

LEMMA AlwaysInv == Spec => []Inv
  BY InitInv, NextInv, PTL DEF Spec

(***************************************************************************)
(* The shares of a split and what is left of it are together the amount.   *)
(***************************************************************************)

\* Only members that were read have a share.
AddsUp(o, j) ==
    /\ IsFiniteSet(DOMAIN j.share)
    /\ DOMAIN j.share \subseteq {Holders[o][i] : i \in 1..j.read}
    /\ SumFunction(j.share) + j.left = j.amount

AllAddUp == \A s \in Source, o \in Org : AddsUp(o, job[<<s, o>>])

\* What a step does to a split: nothing to its shares, nothing that was split so
\* far is kept, or the next member gets one.
SharesKept(j, x) ==
    /\ x.share = j.share /\ x.left = j.left /\ x.amount = j.amount
    /\ x.read \in {j.read, j.read + 1}

NothingSplit(x) == x.share = <<>> /\ x.left = x.amount

ShareAdded(o, j, x) ==
    \E share \in 0..j.left :
        /\ j.read < Len(Holders[o])
        /\ x.read = j.read + 1
        /\ x.left = j.left - share
        /\ x.amount = j.amount
        /\ x.share = With(j.share, Holders[o][j.read + 1], share)

LEMMA StartedShares ==
  ASSUME Inv, NEW s \in Source, NEW amounts, Started(s, amounts),
         NEW q \in Source, NEW o \in Org
  PROVE  SharesKept(job[<<q, o>>], job'[<<q, o>>]) \/ NothingSplit(job'[<<q, o>>])
<1>1. job \in [Source \X Org -> JobState]
  BY DEF Inv, TypeOK
<1>2. \/ job'[<<q, o>>] = job[<<q, o>>]
      \/ job'[<<q, o>>] = Returned
      \/ job'[<<q, o>>] = [NoJob EXCEPT !.pc = "load",
                               !.left = AmountToSplit(o, amounts[o]),
                               !.amount = AmountToSplit(o, amounts[o])]
  BY <1>1 DEF Started
<1>3. NothingSplit(Returned)
  BY DEF NothingSplit, Returned, NoJob
<1>4. NothingSplit([NoJob EXCEPT !.pc = "load", !.left = AmountToSplit(o, amounts[o]),
                                 !.amount = AmountToSplit(o, amounts[o])])
  BY DEF NothingSplit, NoJob
<1>5. SharesKept(job[<<q, o>>], job[<<q, o>>])
  BY DEF SharesKept
<1> QED BY <1>2, <1>3, <1>4, <1>5

\* The steps of a split itself.
LEMMA SetsShares ==
  ASSUME Inv, NEW s \in Source, NEW o \in Org, NEW to, Sets(s, o, to),
         \/ SharesKept(job[<<s, o>>], to)
         \/ NothingSplit(to)
         \/ ShareAdded(o, job[<<s, o>>], to),
         NEW q \in Source, NEW p \in Org
  PROVE  \/ SharesKept(job[<<q, p>>], job'[<<q, p>>])
         \/ NothingSplit(job'[<<q, p>>])
         \/ ShareAdded(p, job[<<q, p>>], job'[<<q, p>>])
<1>1. job \in [Source \X Org -> JobState]
  BY DEF Inv, TypeOK
<1>2. job'[<<q, p>>] = IF q = s /\ p = o THEN to ELSE job[<<q, p>>]
  BY <1>1 DEF Sets
<1>3. SharesKept(job[<<q, p>>], job[<<q, p>>])
  BY DEF SharesKept
<1> QED BY <1>2, <1>3

LEMMA SharesShares ==
  ASSUME Inv, NEW s \in Source, NEW o \in Org, NEW reading \in Readings, Shares(s, o, reading)
  PROVE  \E to : /\ Sets(s, o, to)
                 /\ \/ SharesKept(job[<<s, o>>], to)
                    \/ NothingSplit(to)
                    \/ ShareAdded(o, job[<<s, o>>], to)
<1> DEFINE j == job[<<s, o>>]
           amount == Percent(j.amount, reading)
           share == amount - Lowered(amount, j.left)
<1>1. j \in JobState /\ j.read < Len(Holders[o])
  BY DEF Inv, TypeOK, Shares
<1>2. j.left \in Nat /\ j.amount \in Nat
  BY <1>1, JobNumbers
<1>3. amount \in Nat
  BY <1>2, PercentIsNat, PaymentsAssumption
<1>4. share \in 0..j.left
  <2> HIDE DEF amount
  <2> QED BY <1>2, <1>3, ShareFits
<1>5. CASE reading = 0
  <2>1. SharesKept(j, [j EXCEPT !.read = j.read + 1])
    BY <1>1 DEF SharesKept, JobState
  <2> QED BY <1>5, <2>1 DEF Shares
<1>6. CASE reading # 0 /\ Lowered(amount, j.left) > MaxDepth
  <2>1. NothingSplit(Thrown)
    BY DEF NothingSplit, Thrown, NoJob
  <2> QED BY <1>6, <2>1 DEF Shares
<1>7. CASE reading # 0 /\ ~(Lowered(amount, j.left) > MaxDepth)
  <2> DEFINE m == NextHolder(s, o)
             x == [j EXCEPT !.read = j.read + 1, !.left = j.left - share,
                            !.share = With(j.share, m, share),
                            !.moved = With(j.moved, m, 0)]
  <2>1. Sets(s, o, x)
    BY <1>7 DEF Shares
  <2>2. m = Holders[o][j.read + 1]
    BY DEF NextHolder
  <2> HIDE DEF share, m
  <2>3. ShareAdded(o, j, x)
    BY <1>1, <1>4, <2>2 DEF ShareAdded, JobState
  <2> QED BY <2>1, <2>3
<1> QED BY <1>5, <1>6, <1>7

LEMMA JobStepShares ==
  ASSUME Inv, NEW s \in Source, NEW o \in Org, JobStep(s, o) \/ BatchLands(s, o),
         NEW q \in Source, NEW p \in Org
  PROVE  \/ SharesKept(job[<<q, p>>], job'[<<q, p>>])
         \/ NothingSplit(job'[<<q, p>>])
         \/ ShareAdded(p, job[<<q, p>>], job'[<<q, p>>])
<1> DEFINE j == job[<<s, o>>]
<1>1. j \in JobState
  BY DEF Inv, TypeOK
<1>2. \A over, threw, moved, base, to :
          /\ SharesKept(j, [j EXCEPT !.over = over])
          /\ SharesKept(j, [j EXCEPT !.over = over, !.threw = threw])
          /\ SharesKept(j, [j EXCEPT !.moved = moved])
          /\ SharesKept(j, [j EXCEPT !.pc = to, !.base = base])
          /\ SharesKept(j, [j EXCEPT !.pc = to])
  BY <1>1 DEF SharesKept, JobState
<1>3. NothingSplit(Returned) /\ NothingSplit(Thrown)
  BY DEF NothingSplit, Returned, Thrown, NoJob
<1>4. CASE \E c \in Org : Forwards(s, o, c)
  BY <1>4, StartedShares DEF Forwards
<1>5. CASE \E reading \in Readings : Shares(s, o, reading)
  BY <1>5, SharesShares, SetsShares
<1>6. CASE Loads(s, o) \/ BeginsChildren(s, o)
  <2>1. \E to : Sets(s, o, to) /\ SharesKept(j, to)
    BY <1>2, <1>6 DEF Loads, BeginsChildren
  <2> HIDE DEF j
  <2> QED BY <2>1, SetsShares DEF j
<1>7. CASE BatchReturns(s, o) \/ BatchThrows(s, o) \/ BatchLands(s, o)
  <2>1. \E to : Sets(s, o, to) /\ SharesKept(j, to)
    BY <1>2, <1>7 DEF BatchReturns, BatchThrows, BatchLands
  <2> HIDE DEF j
  <2> QED BY <2>1, SetsShares DEF j
<1>8. CASE Returns(s, o) \/ Throws(s, o)
  <2>1. Sets(s, o, Returned) \/ Sets(s, o, Thrown)
    BY <1>8 DEF Returns, Throws
  <2> QED BY <1>3, <2>1, SetsShares
<1> QED BY <1>4, <1>5, <1>6, <1>7, <1>8 DEF JobStep

LEMMA NextShares ==
  ASSUME Inv, [Next]_vars, NEW s \in Source, NEW o \in Org
  PROVE  \/ SharesKept(job[<<s, o>>], job'[<<s, o>>])
         \/ NothingSplit(job'[<<s, o>>])
         \/ ShareAdded(o, job[<<s, o>>], job'[<<s, o>>])
<1>1. job \in [Source \X Org -> JobState]
  BY DEF Inv, TypeOK
<1>2. CASE UNCHANGED job
  BY <1>2 DEF SharesKept
<1>3. CASE Crash
  <2>1. job'[<<s, o>>] \in {job[<<s, o>>], Thrown}
    BY <1>1, <1>3 DEF Crash
  <2>2. NothingSplit(Thrown)
    BY DEF NothingSplit, Thrown, NoJob
  <2> QED BY <2>1, <2>2 DEF SharesKept
<1>4. ASSUME NEW q \in Source, NEW p \in Org, JobStep(q, p) \/ BatchLands(q, p)
      PROVE  \/ SharesKept(job[<<s, o>>], job'[<<s, o>>])
             \/ NothingSplit(job'[<<s, o>>])
             \/ ShareAdded(o, job[<<s, o>>], job'[<<s, o>>])
  BY <1>4, JobStepShares
<1>5. ASSUME NEW q \in Source,
             \/ PerformPayment(q) \/ HandleMerchantPayment(q) \/ HandleNewDeplanPayment(q)
             \/ SplitsAtOnce(q) \/ ComesIn(q) \/ SourceStep(q)
      PROVE  \/ SharesKept(job[<<s, o>>], job'[<<s, o>>])
             \/ NothingSplit(job'[<<s, o>>])
  <2>1. UNCHANGED job \/ \E amounts : Started(q, amounts)
    <3>1. CASE \/ PerformPayment(q) \/ HandleMerchantPayment(q)
               \/ HandleNewDeplanPayment(q) \/ ComesIn(q)
      BY <3>1 DEF PerformPayment, HandleMerchantPayment, HandleNewDeplanPayment,
                  Accepted, ComesIn
    <3>2. CASE SplitsAtOnce(q)
      BY <3>2 DEF SplitsAtOnce
    <3>3. CASE SourceStep(q)
      BY <3>3 DEF SourceStep, Performs, Mints, Transfers, Records, SourceThrows
    <3> QED BY <1>5, <3>1, <3>2, <3>3
  <2> QED BY <1>2, <2>1, StartedShares DEF SharesKept
<1>6. CASE \E v \in saves : Saves(v)
  BY <1>2, <1>6 DEF Saves
<1>7. CASE UNCHANGED vars
  BY <1>2, <1>7 DEF vars
<1> QED BY <1>3, <1>4, <1>5, <1>6, <1>7 DEF Next

\* A share added to the others is taken from what is left.
LEMMA AddedAddsUp ==
  ASSUME NEW o \in Org, NEW j \in JobState, NEW x, JobSound(o, j), AddsUp(o, j),
         ShareAdded(o, j, x)
  PROVE  AddsUp(o, x)
<1> DEFINE D == DOMAIN j.share
           m == Holders[o][j.read + 1]
<1>1. j.read \in Nat /\ j.left \in Nat /\ j.amount \in Nat
  BY JobNumbers
<1>2. PICK share \in 0..j.left :
          /\ j.read < Len(Holders[o])
          /\ x.read = j.read + 1
          /\ x.left = j.left - share
          /\ x.amount = j.amount
          /\ x.share = With(j.share, m, share)
  BY DEF ShareAdded
<1>3. j.read + 1 \in DOMAIN Holders[o] /\ m \in Member
  BY <1>1, <1>2, HolderIsMember
<1>4. m \notin D
  <2> SUFFICES ASSUME m \in D PROVE FALSE
    OBVIOUS
  <2>1. PICK i \in 1..j.read : m = Holders[o][i]
    BY DEF AddsUp
  <2>2. i \in DOMAIN Holders[o] /\ i # j.read + 1
    BY <1>1, <1>2, HolderIsMember
  <2> QED BY <1>3, <2>1, <2>2, HolderIsMember
<1>5. j.share \in Amounts /\ \A n \in D : j.share[n] \in Nat
  BY DEF JobState, Amounts
<1>6. IsFiniteSet(D) /\ IsFiniteSet(D \cup {m})
  BY FS_AddElement DEF AddsUp
<1> HIDE DEF m
<1>7. /\ DOMAIN x.share = D \cup {m}
      /\ \A n \in D : x.share[n] = j.share[n]
      /\ x.share[m] = share
  BY <1>2, <1>4 DEF With
<1>8. SumFunctionOnSet(x.share, D \cup {m}) = share + SumFunctionOnSet(x.share, D)
  BY <1>4, <1>5, <1>6, <1>7, SumWith
<1>9. SumFunctionOnSet(x.share, D) = SumFunctionOnSet(j.share, D)
  BY <1>6, <1>7, SumSame
<1>10. SumFunctionOnSet(j.share, D) \in Nat
  BY <1>5, <1>6, SumIsNat
<1>11. SumFunctionOnSet(j.share, D) + j.left = j.amount
  BY DEF AddsUp, SumFunction
<1>12. SumFunction(x.share) + x.left = x.amount
  BY <1>1, <1>2, <1>7, <1>8, <1>9, <1>10, <1>11 DEF SumFunction
<1>13. DOMAIN x.share \subseteq {Holders[o][i] : i \in 1..x.read}
  <2>1. D \subseteq {Holders[o][i] : i \in 1..x.read}
    BY <1>1, <1>2 DEF AddsUp
  <2>2. m \in {Holders[o][i] : i \in 1..x.read}
    BY <1>1, <1>2 DEF m
  <2> QED BY <1>7, <2>1, <2>2
<1> QED BY <1>6, <1>7, <1>12, <1>13 DEF AddsUp

LEMMA NothingAddsUp ==
  ASSUME NEW o \in Org, NEW x \in JobState, NothingSplit(x) PROVE AddsUp(o, x)
<1>1. DOMAIN x.share = {}
  BY DEF NothingSplit
<1>2. SumFunction(x.share) = 0
  BY <1>1, SumOfNone DEF SumFunction
<1>3. x.left \in Nat
  BY JobNumbers
<1>4. IsFiniteSet(DOMAIN x.share)
  BY <1>1, FS_EmptySet
<1> QED BY <1>1, <1>2, <1>3, <1>4 DEF AddsUp, NothingSplit

LEMMA InitAddUp == Init => AllAddUp
<1> SUFFICES ASSUME Init, NEW s \in Source, NEW o \in Org PROVE AddsUp(o, job[<<s, o>>])
  BY DEF AllAddUp
<1>1. job[<<s, o>>] = NoJob /\ NothingSplit(NoJob)
  BY DEF Init, NothingSplit, NoJob
<1> QED BY <1>1, NoJobSound, NothingAddsUp

LEMMA NextAddUp == ASSUME Inv, Inv', AllAddUp, [Next]_vars PROVE AllAddUp'
<1> SUFFICES ASSUME NEW s \in Source, NEW o \in Org PROVE AddsUp(o, job'[<<s, o>>])
  BY DEF AllAddUp, AddsUp
<1> DEFINE j == job[<<s, o>>]
           x == job'[<<s, o>>]
<1>1. j \in JobState /\ x \in JobState /\ JobSound(o, j) /\ AddsUp(o, j)
  BY DEF Inv, TypeOK, JobsSound, AllAddUp
<1>2. SharesKept(j, x) \/ NothingSplit(x) \/ ShareAdded(o, j, x)
  BY NextShares
<1> HIDE DEF j, x
<1>3. ASSUME SharesKept(j, x) PROVE AddsUp(o, x)
  <2>1. j.read \in Nat /\ x.read \in Nat
    BY <1>1, JobNumbers
  <2>2. 1..j.read \subseteq 1..x.read
    BY <1>3, <2>1 DEF SharesKept
  <2>3. /\ DOMAIN j.share \subseteq {Holders[o][i] : i \in 1..j.read}
        /\ IsFiniteSet(DOMAIN j.share)
        /\ SumFunction(j.share) + j.left = j.amount
    BY <1>1 DEF AddsUp
  <2>4. /\ DOMAIN x.share \subseteq {Holders[o][i] : i \in 1..x.read}
        /\ IsFiniteSet(DOMAIN x.share)
    BY <1>3, <2>2, <2>3 DEF SharesKept
  <2>5. SumFunction(x.share) + x.left = x.amount
    BY <1>3, <2>3 DEF SharesKept
  <2> QED BY <2>4, <2>5 DEF AddsUp
<1>4. ASSUME NothingSplit(x) PROVE AddsUp(o, x)
  BY <1>1, <1>4, NothingAddsUp
<1>5. ASSUME ShareAdded(o, j, x) PROVE AddsUp(o, x)
  BY <1>1, <1>5, AddedAddsUp
<1>6. AddsUp(o, x)
  BY <1>2, <1>3, <1>4, <1>5
<1> QED BY <1>6 DEF x

LEMMA AlwaysAddUp == Spec => []AllAddUp
  BY AlwaysInv, InitAddUp, NextAddUp, PTL DEF Spec

(***************************************************************************)
(* Theorems.                                                               *)
(***************************************************************************)

\* Payments, splits and members' documents keep their types: no share, no profit
\* and nothing that is left to split is ever negative.
THEOREM StateCorrect == Spec => []TypeOK
<1>1. Inv => TypeOK
  BY DEF Inv
<1> QED BY <1>1, AlwaysInv, PTL

\* Nothing is recorded or split of money that has not come in, and no member
\* splits in turn what was neither transferred to it nor known to have failed.
THEOREM SplitFunded == Spec => []SplitIsFunded
<1>1. Inv => SplitIsFunded
  <2> SUFFICES ASSUME Inv, NEW s \in Source
               PROVE  /\ Kind(s) # "deplan" /\ (s \in hash \/ \E o \in Org : job[<<s, o>>].pc # "idle")
                             => landed[s] > 0
                      /\ \A o \in Org : \A c \in Children(s, o) :
                             job[<<s, o>>].pc = "children" /\ job[<<s, c>>].pc # "idle" =>
                                 job[<<s, o>>].moved[c] > 0 \/ c \in job[<<s, o>>].threw
    BY DEF SplitIsFunded
  <2>1. landed[s] \in Nat
    BY DEF Inv, TypeOK
  <2>2. landed[s] = 0 \/ landed[s] > 0
    BY <2>1
  <2>3. \A o \in Org : \A c \in Children(s, o) : job[<<s, o>>].pc = "children" =>
            job[<<s, o>>].moved[c] > 0 \/ c \in job[<<s, o>>].threw
    BY DEF Inv, JobsSound, JobSound, Children
  <2> QED BY <2>2, <2>3 DEF Inv, FundsFirst
<1> QED BY <1>1, AlwaysInv, PTL

\* A member's profit is what he was to get, once it is saved, unless two splits of
\* his organisation overlapped or the process died.
THEOREM ProfitHasCause == Spec => []ProfitLostNeedsCause
<1>1. Inv => ProfitLostNeedsCause
  BY DEF Inv
<1> QED BY <1>1, AlwaysInv, PTL

\* Shares are never negative, and with what is left of it they are what is split,
\* whatever the members' balances are read to be and however they are rounded.
THEOREM SharesCorrect == Spec => []SharesFit
<1>1. Inv /\ AllAddUp => SharesFit
  <2> SUFFICES ASSUME Inv, AllAddUp, NEW so \in DOMAIN job
               PROVE  /\ \A m \in DOMAIN job[so].share : job[so].share[m] >= 0
                      /\ SumFunction(job[so].share) <= job[so].amount
    BY DEF SharesFit
  <2> DEFINE j == job[so]
             D == DOMAIN j.share
  <2>1. PICK s \in Source, o \in Org : so = <<s, o>>
    BY DEF Inv, TypeOK
  <2>2. j \in JobState /\ AddsUp(o, j) /\ JobSound(o, j)
    BY <2>1 DEF Inv, TypeOK, AllAddUp, JobsSound
  <2> HIDE DEF j
  <2>3. j.left \in Nat /\ j.amount \in Nat /\ j.read \in Nat
    BY <2>2, JobNumbers
  <2>4. \A m \in D : j.share[m] \in Nat
    BY <2>2 DEF JobState, Amounts
  <2>5. IsFiniteSet(D)
    BY <2>2 DEF AddsUp
  <2>6. SumFunction(j.share) \in Nat
    BY <2>4, <2>5, SumIsNat DEF SumFunction
  <2>7. SumFunction(j.share) + j.left = j.amount
    BY <2>2 DEF AddsUp
  <2>8. SumFunction(j.share) <= j.amount
    BY <2>3, <2>6, <2>7
  <2> QED BY <2>4, <2>8 DEF j
<1> QED BY <1>1, AlwaysInv, AlwaysAddUp, PTL

===============================================================================
