------------------------- MODULE MemTransferProofs --------------------------
(***************************************************************************)
(* Proofs about MemTransfer for every number of pages and of connections,  *)
(* every size of the channel, and any number of iterations, writes of the  *)
(* guest and connections that fail: an iteration ends with all of its      *)
(* chunks applied and none left on a connection, and the memory with which *)
(* the receiver goes on is the source's.                                   *)
(***************************************************************************)
EXTENDS MemTransfer, FiniteSetTheorems, WellFoundedInduction, TLAPS

Messages == [kind : {"memory", "gate", "disconnect"}, page : Nat, gate : Nat]
Places == {"connect", "iterate", "pause", "enqueue", "gates", "wait", "sent",
           "disconnect", "snapshot", "state", "ended"}
Owners == [at : Places, n : Nat, table : SUBSET Pages, round : Nat, final : BOOLEAN,
           then : {"iterate", "sent", "enqueue", "snapshot"}, res : Ended]

\* TypeOK without the bounds of the model, and with the channels' contents.
MemTypes ==
    mem \in [Pages -> Nat] /\ dst \in [Pages -> Nat] /\ dirty \subseteq Pages
OwnTypes == own \in Owners /\ threads \subseteq Workers /\ opened \subseteq Nat
FlagTypes ==
    tx \in BOOLEAN /\ worker_error \in BOOLEAN /\ cancel \in BOOLEAN /\ kill \in BOOLEAN
ChanTypes == chan \in Seq(Messages) /\ notes \in Seq({"gate", "error"})
SndTypes ==
    snd \in [Workers ->
        [pc : {"none", "recv", "send", "ack", "gate", "failing"} \cup Ended,
         page : Nat, gate : Nat]]
NetTypes ==
    /\ wire \in [Workers -> [at : {"none", "table", "data"}, page : Nat, version : Nat]]
    /\ ack \in [Workers -> BOOLEAN]
RcvTypes ==
    /\ rcv \in [Workers -> {"none", "backlog", "header", "idle", "data"} \cup Ended]
    /\ acc \in {"accepting", "failing"} \cup Ended
    /\ main \in {"configured", "cleanup", "received", "failed"}

Types ==
    /\ MemTypes /\ OwnTypes /\ FlagTypes /\ ChanTypes /\ SndTypes /\ NetTypes /\ RcvTypes

\* Elements of a sequence that are in S.
Count(s, S) == Cardinality({i \in 1..Len(s) : s[i] \in S})
Gates == {m \in Messages : m.kind = "gate"}

\* The last cleanup, after which the snapshot follows.
LastCleanup == own.at = "disconnect" /\ own.res = "ok" /\ own.then = "snapshot"
Transferring == own.at \in {"enqueue", "gates", "wait"}
BetweenTransfers == own.at \in {"iterate", "pause", "sent", "snapshot", "state"} \/ LastCleanup

\* Where the migration worker can be with which table, result and gates.
OwnerShape ==
    /\ own.table # {} =>
          own.at \in {"enqueue", "pause", "disconnect", "ended"} /\ ~LastCleanup
    /\ own.res = "err" => own.at \in {"disconnect", "ended"}
    /\ own.at \in {"sent", "snapshot", "state"} \/ LastCleanup => own.final
    /\ own.final => dirty = {} /\ own.at \notin {"connect", "iterate", "pause"}
    /\ own.at = "connect" => own.round = 0
    /\ own.at \in {"gates", "wait"} => threads # {}
    /\ own.at \in {"snapshot", "state"} => threads = {}
    /\ own.at # "ended" => tx

\* The send workers: which of them exist, and that a gate is one of the past
\* unless the present iteration sent it.
WorkerShape ==
    /\ \A w \in Workers : snd[w].pc \in {"none"} \cup Ended \/ w \in threads
    /\ \A w \in threads : snd[w].pc # "none"
    /\ Transferring \/ BetweenTransfers =>
          /\ \A g \in opened : g < own.round
          /\ \A w \in Workers : snd[w].pc = "gate" => snd[w].gate <= own.round
    /\ own.at = "connect" =>
          chan = <<>> /\ opened = {} /\ notes = <<>> /\ ~worker_error
          /\ \A w \in Workers : snd[w].pc \in {"none", "recv"}

\* An error is known to worker_error, a worker of the present migration has it,
\* and the migration worker goes to its end with it.
ErrorShape ==
    /\ \A w \in Workers : snd[w].pc \in {"failing", "err"} => worker_error
    /\ \A i \in 1..Len(notes) : notes[i] = "error" => worker_error
    /\ worker_error /\ own.at # "ended" => \E w \in threads : snd[w].pc \in {"failing", "err"}
    /\ own.at = "disconnect" /\ own.res = "ok" /\ own.then # "snapshot" => worker_error

\* What is on the connection of a worker.  Data that is older than the page is
\* data of a page that is in the dirty log.
WireShape ==
    \A w \in Workers :
        /\ snd[w].pc = "send" =>
              /\ snd[w].page \in Pages /\ ~ack[w]
              /\ wire[w].at = "table" /\ wire[w].page = snd[w].page
        /\ snd[w].pc = "ack" => snd[w].page \in Pages
        /\ snd[w].pc = "ack" /\ ~ack[w] =>
              /\ wire[w].at = "data" /\ wire[w].page = snd[w].page
              /\ wire[w].version = mem[snd[w].page] \/ snd[w].page \in dirty
        /\ snd[w].pc = "ack" /\ ack[w] => wire[w].at = "none"
        /\ snd[w].pc \in {"none", "recv", "gate", "ok"} => wire[w].at = "none" /\ ~ack[w]
        /\ wire[w].at # "none" => wire[w].page \in Pages

\* A chunk names a page.  No chunk is behind a gate, and none is in the channel
\* once a worker has arrived at the gate, or where there is no worker.
AtGate == {w \in threads : snd[w].pc = "gate" /\ snd[w].gate = own.round}

ChannelShape ==
    /\ \A i \in 1..Len(chan) : chan[i].kind = "memory" => chan[i].page \in Pages
    /\ Transferring =>
          /\ \A i \in 1..Len(chan) : chan[i].kind = "gate" => chan[i].gate = own.round
          /\ \A i, j \in 1..Len(chan) : i < j /\ chan[i].kind = "gate" => chan[j].kind # "memory"
          /\ AtGate # {} \/ threads = {} => \A i \in 1..Len(chan) : chan[i].kind # "memory"

\* Every gate that was sent is in the channel or holds a worker, and every
\* worker at the gate was or will be seen by the migration worker.
GatesAreCounted ==
    /\ own.at = "enqueue" =>
          Count(chan, Gates) = 0 /\ AtGate = {} /\ Count(notes, {"gate"}) = 0
    /\ own.at = "gates" =>
          /\ own.n < Cardinality(threads)
          /\ Count(chan, Gates) + Cardinality(AtGate) = own.n
          /\ Count(notes, {"gate"}) = Cardinality(AtGate)
    /\ own.at = "wait" =>
          /\ own.n < Cardinality(threads)
          /\ Count(chan, Gates) + Cardinality(AtGate) = Cardinality(threads)
          /\ own.n + Count(notes, {"gate"}) = Cardinality(AtGate)

\* Between two calls of send_memory nothing is under way.
QuietBetween ==
    BetweenTransfers =>
        /\ ~worker_error /\ notes = <<>>
        /\ \A i \in 1..Len(chan) : chan[i].kind = "disconnect"
        /\ \A w \in Workers :
              /\ snd[w].pc \in {"none", "recv", "gate", "ok"}
              /\ snd[w].pc = "gate" => snd[w].gate < own.round

\* A page that the destination lacks is still to be sent, or is under way.
UnderWay(p) ==
    \/ p \in own.table
    \/ \E i \in 1..Len(chan) : chan[i].kind = "memory" /\ chan[i].page = p
    \/ \E w \in Workers :
          snd[w].page = p /\ (snd[w].pc = "send" \/ (snd[w].pc = "ack" /\ ~ack[w]))

Begun == own.round > 0 \/ own.at # "iterate"

PagesAreCovered ==
    (Transferring \/ BetweenTransfers) /\ Begun /\ ~worker_error =>
        \A p \in Pages : p \in dirty \/ dst[p] = mem[p] \/ UnderWay(p)

\* What the receiver's main thread has been told.
Delivered ==
    /\ main # "configured" => own.at \in {"state", "ended"}
    /\ main \in {"cleanup", "received"} =>
          /\ dst = mem /\ own.final
          /\ \A w \in Workers : snd[w].pc \in {"none", "ok"}

(***************************************************************************)
(* The inductive invariant.                                                *)
(***************************************************************************)
IndInv ==
    /\ Types /\ OwnerShape /\ WorkerShape /\ ErrorShape /\ WireShape /\ ChannelShape
    /\ GatesAreCounted /\ QuietBetween /\ PagesAreCovered /\ Delivered
-----------------------------------------------------------------------------
(***************************************************************************)
(* Sequences: the first element and the others, and a new last element.    *)
(***************************************************************************)
LEMMA TailFacts ==
    ASSUME NEW S, NEW s \in Seq(S), s # <<>>
    PROVE  /\ Len(s) \in Nat /\ Len(s) > 0 /\ Head(s) = s[1] /\ s[1] \in S
           /\ Tail(s) \in Seq(S) /\ Len(Tail(s)) = Len(s) - 1
           /\ \A i \in 1..Len(Tail(s)) : Tail(s)[i] = s[i + 1]
  OBVIOUS

(***************************************************************************)
(* A sequence without elements is empty.                                   *)
(***************************************************************************)
LEMMA EmptySeq == ASSUME NEW S, NEW s \in Seq(S), Len(s) = 0 PROVE s = <<>>
  OBVIOUS

(***************************************************************************)
(* What send leaves in a channel.                                          *)
(***************************************************************************)
LEMMA AppendFacts ==
    ASSUME NEW S, NEW s \in Seq(S), NEW x \in S
    PROVE  /\ Len(s) \in Nat /\ Append(s, x) \in Seq(S)
           /\ Len(Append(s, x)) = Len(s) + 1
           /\ \A i \in 1..Len(s) : Append(s, x)[i] = s[i]
           /\ Append(s, x)[Len(s) + 1] = x
  OBVIOUS

(***************************************************************************)
(* Counting: how many elements of a sequence are in S.                     *)
(***************************************************************************)
LEMMA CountType ==
    ASSUME NEW T, NEW s \in Seq(T), NEW S
    PROVE  /\ Count(s, S) \in Nat
           /\ IsFiniteSet({i \in 1..Len(s) : s[i] \in S})
           /\ Count(s, S) = 0 <=> \A i \in 1..Len(s) : s[i] \notin S
<1> DEFINE Hits == {i \in 1..Len(s) : s[i] \in S}
<1>1. IsFiniteSet(1..Len(s))
  <2>1. Len(s) \in Int /\ 1 \in Int
    OBVIOUS
  <2> QED
    BY <2>1, FS_Interval
<1>2. IsFiniteSet(Hits)
  BY <1>1, FS_Subset
<1>3. Cardinality(Hits) \in Nat /\ (Cardinality(Hits) = 0 <=> Hits = {})
  BY <1>2, FS_CardinalityType, FS_EmptySet
<1> QED
  BY <1>2, <1>3 DEF Count

(***************************************************************************)
(* An element more is counted once if it is in S.                          *)
(***************************************************************************)
LEMMA CountAppend ==
    ASSUME NEW T, NEW s \in Seq(T), NEW S, NEW x \in T
    PROVE  Count(Append(s, x), S) = Count(s, S) + (IF x \in S THEN 1 ELSE 0)
<1> DEFINE Hits == {i \in 1..Len(s) : s[i] \in S}
           More == {i \in 1..Len(Append(s, x)) : Append(s, x)[i] \in S}
           n == Len(s) + 1
<1>c. Count(s, S) = Cardinality(Hits) /\ Count(Append(s, x), S) = Cardinality(More)
  BY DEF Count
<1>0. IsFiniteSet(Hits)
  BY CountType
<1>a. /\ Len(s) \in Nat /\ Len(Append(s, x)) = n
      /\ \A i \in 1..Len(s) : Append(s, x)[i] = s[i]
      /\ Append(s, x)[n] = x
  BY AppendFacts
<1>1. \A i : i \in 1..n <=> i \in 1..Len(s) \/ i = n
  BY <1>a
<1>2. CASE x \in S
  <2>1. More = Hits \cup {n} /\ n \notin Hits
    BY <1>a, <1>1, <1>2
  <2>2. Cardinality(Hits \cup {n}) = Cardinality(Hits) + 1
    BY <1>0, <2>1, FS_AddElement
  <2> HIDE DEF Hits, More, n
  <2> QED
    BY <1>2, <1>c, <2>1, <2>2
<1>3. CASE x \notin S
  <2>1. More = Hits
    BY <1>a, <1>1, <1>3
  <2>2. Cardinality(Hits) \in Nat
    BY <1>0, FS_CardinalityType
  <2> HIDE DEF Hits, More
  <2> QED
    BY <1>3, <1>c, <2>1, <2>2
<1> QED
  BY <1>2, <1>3

(***************************************************************************)
(* An element less likewise.                                               *)
(***************************************************************************)
LEMMA CountTail ==
    ASSUME NEW T, NEW s \in Seq(T), NEW S, s # <<>>
    PROVE  Count(s, S) = Count(Tail(s), S) + (IF Head(s) \in S THEN 1 ELSE 0)
<1> DEFINE Hits == {i \in 1..Len(s) : s[i] \in S}
           Rest == {i \in 1..Len(Tail(s)) : Tail(s)[i] \in S}
           Later == Hits \ {1}
           f == [i \in Rest |-> i + 1]
<1>c. Count(s, S) = Cardinality(Hits) /\ Count(Tail(s), S) = Cardinality(Rest)
  BY DEF Count
<1>a. /\ Len(s) \in Nat /\ Len(s) > 0 /\ Head(s) = s[1]
      /\ Tail(s) \in Seq(T) /\ Len(Tail(s)) = Len(s) - 1
      /\ \A i \in 1..Len(Tail(s)) : Tail(s)[i] = s[i + 1]
  BY TailFacts
<1>0. IsFiniteSet(Hits) /\ IsFiniteSet(Rest)
  BY <1>a, CountType
<1>1. \A i \in Rest : i + 1 \in Later
  BY <1>a
<1>2. \A j \in Later : j - 1 \in Rest /\ j = (j - 1) + 1
  BY <1>a
<1>3. f \in Bijection(Rest, Later)
  <2>1. f \in [Rest -> Later]
    BY <1>1
  <2>2. \A i, j \in Rest : f[i] = f[j] => i = j
    BY <1>a
  <2>3. \A j \in Later : \E i \in Rest : f[i] = j
    BY <1>2
  <2> QED
    BY <2>1, <2>2, <2>3 DEF Bijection, Injection, Surjection, IsInjective
<1>4. ExistsBijection(Rest, Later)
  BY <1>3 DEF ExistsBijection
<1>5. Cardinality(Rest) = Cardinality(Later)
  BY <1>0, <1>4, FS_Bijection
<1>6. Cardinality(Hits) \in Nat /\ Cardinality(Rest) \in Nat
  BY <1>0, FS_CardinalityType
<1>7. CASE Head(s) \in S
  <2>1. 1 \in Hits
    BY <1>a, <1>7
  <2>2. Cardinality(Later) = Cardinality(Hits) - 1
    BY <1>0, <2>1, FS_RemoveElement
  <2> HIDE DEF Hits, Rest, Later
  <2> QED
    BY <1>c, <1>5, <1>6, <1>7, <2>2
<1>8. CASE Head(s) \notin S
  <2>1. Later = Hits
    BY <1>a, <1>8
  <2> HIDE DEF Hits, Rest, Later
  <2> QED
    BY <1>c, <1>5, <1>6, <1>8, <2>1
<1> QED
  BY <1>7, <1>8

(***************************************************************************)
(* What the migration worker puts in the channel.                          *)
(***************************************************************************)
LEMMA LeastExists ==
    ASSUME NEW S \in SUBSET Nat, S # {}
    PROVE  \E x \in S : \A y \in S : x <= y
<1>1. PICK x \in S : \A y \in S : ~(<<y, x>> \in OpToRel(<, Nat))
  BY NatLessThanWellFounded, WFMin, Zenon
<1>2. \A y \in S : ~(y < x)
  BY <1>1 DEF OpToRel
<1> QED
  BY <1>2

(***************************************************************************)
(* Pages and workers are numbered.                                         *)
(***************************************************************************)
LEMMA PagesAreNumbers == Pages \subseteq Nat /\ Workers \subseteq Nat
  BY TransferAssumption DEF Pages, Workers

(***************************************************************************)
(* The messages that the migration worker sends, and the chunk it takes    *)
(* from a table.                                                           *)
(***************************************************************************)
LEMMA MessageFacts ==
    ASSUME OwnTypes
    PROVE  /\ GateMsg(own.round) \in Messages /\ Disconnect \in Messages
           /\ own.table # {} =>
                Chunk \in own.table /\ Chunk \in Pages /\ Memory(Chunk) \in Messages
<1>1. own.table \subseteq Pages /\ own.round \in Nat
  BY DEF OwnTypes, Owners
<1>2. GateMsg(own.round) \in Messages /\ Disconnect \in Messages
  BY <1>1 DEF GateMsg, Disconnect, Messages, None
<1>3. ASSUME own.table # {} PROVE Chunk \in own.table
  <2>1. own.table \in SUBSET Nat
    BY <1>1, PagesAreNumbers
  <2> QED
    BY <1>3, <2>1, LeastExists DEF Chunk, Min
<1>4. ASSUME own.table # {} PROVE Chunk \in Pages /\ Memory(Chunk) \in Messages
  BY <1>1, <1>3, <1>4, PagesAreNumbers DEF Memory, Messages, None
<1> QED
  BY <1>2, <1>3, <1>4

(***************************************************************************)
(* What a write of the guest changes.                                      *)
(***************************************************************************)
LEMMA GuestWriteFacts ==
    ASSUME NEW p \in Pages, GuestWrite(p)
    PROVE  /\ ~own.final /\ mem' = [mem EXCEPT ![p] = @ + 1] /\ dirty' = dirty \cup {p}
           /\ UNCHANGED <<dst, sender, channels, snd, network, receiver, faults>>
  BY Zenon DEF GuestWrite

(***************************************************************************)
(* The states of the migration worker.                                     *)
(***************************************************************************)
LEMMA OwnerFacts ==
    ASSUME NEW o \in Owners, NEW S \in SUBSET Pages
    PROVE  /\ o.round + 1 \in Nat /\ o.n + 1 \in Nat
           /\ Returned(o) \in Owners
           /\ [o EXCEPT !.table = S] \in Owners
           /\ [o EXCEPT !.table = S, !.final = TRUE] \in Owners
           /\ Send(o) \in Owners
<1>1. o.round + 1 \in Nat /\ o.n + 1 \in Nat
  BY DEF Owners
<1>2. Returned(o) \in Owners
  <2>1. CASE o.final
    BY <1>1, <2>1 DEF Owners, Returned, Places
  <2>2. CASE ~o.final
    BY <1>1, <2>2 DEF Owners, Returned, Places
  <2> QED
    BY <2>1, <2>2
<1>3. [o EXCEPT !.table = S] \in Owners /\ [o EXCEPT !.table = S, !.final = TRUE] \in Owners
  BY DEF Owners
<1>4. [o EXCEPT !.at = "enqueue"] \in Owners
  BY DEF Owners, Places
<1> QED
  BY <1>1, <1>2, <1>3, <1>4 DEF Send

(***************************************************************************)
(* What recv takes from the channels, and leaves.                          *)
(***************************************************************************)
LEMMA ChanFacts ==
    ASSUME ChanTypes
    PROVE  /\ Len(chan) \in Nat /\ Len(notes) \in Nat
           /\ chan # <<>> =>
                /\ Head(chan) \in Messages /\ Head(chan) = chan[1] /\ Len(chan) > 0
                /\ Len(Tail(chan)) = Len(chan) - 1
                /\ \A i \in 1..Len(Tail(chan)) : Tail(chan)[i] = chan[i + 1]
           /\ notes # <<>> =>
                /\ Head(notes) = notes[1] /\ Len(notes) > 0
                /\ Len(Tail(notes)) = Len(notes) - 1
                /\ \A i \in 1..Len(Tail(notes)) : Tail(notes)[i] = notes[i + 1]
<1>0. chan \in Seq(Messages) /\ notes \in Seq({"gate", "error"})
  BY DEF ChanTypes
<1>1. Len(chan) \in Nat /\ Len(notes) \in Nat
  BY <1>0
<1> QED
  BY <1>0, <1>1, TailFacts

(***************************************************************************)
(* Every step keeps the types.                                             *)
(***************************************************************************)
LEMMA TypesStep ==
    ASSUME Types, WireShape, ChannelShape, Next
    PROVE  Types'
<1> USE TransferAssumption DEF Ended, None, guest, sender, channels, network, receiver
<1>0. MemTypes /\ OwnTypes /\ FlagTypes /\ ChanTypes /\ SndTypes /\ NetTypes /\ RcvTypes
  BY DEF Types
<1> USE <1>0
<1>1. ASSUME NEW w \in Workers, Take(w) PROVE Types'
  <2>0. chan # <<>> /\ Head(chan) \in Messages /\ Tail(chan) \in Seq(Messages)
    BY <1>1, TailFacts DEF Take, ChanTypes
  <2>1. MemTypes' /\ OwnTypes' /\ FlagTypes' /\ RcvTypes'
    BY <1>1 DEF Take, MemTypes, OwnTypes, FlagTypes, RcvTypes
  <2>2. ChanTypes'
    BY <1>1, <2>0, AppendFacts DEF Take, ChanTypes
  <2>3. SndTypes'
    <3>1. CASE Head(chan).kind = "memory" /\ worker_error
      BY <1>1, <2>0, <3>1 DEF Take, SndTypes, Messages
    <3>2. CASE Head(chan).kind = "memory" /\ ~worker_error
      BY <1>1, <2>0, <3>2 DEF Take, SndTypes, Messages
    <3>3. CASE Head(chan).kind # "memory"
      BY <1>1, <2>0, <3>3 DEF Take, SndTypes, Messages
    <3> QED
      BY <3>1, <3>2, <3>3
  <2>4. NetTypes'
    BY <1>1, <2>0 DEF Take, NetTypes, Messages
  <2> QED
    BY <2>1, <2>2, <2>3, <2>4 DEF Types
<1>2. ASSUME NEW w \in Workers, SendData(w) PROVE Types'
  <2>0. snd[w].page \in Pages /\ mem[snd[w].page] \in Nat
    BY <1>2 DEF SendData, WireShape, MemTypes
  <2>1. MemTypes' /\ OwnTypes' /\ FlagTypes' /\ ChanTypes' /\ RcvTypes'
    BY <1>2 DEF SendData, MemTypes, OwnTypes, FlagTypes, ChanTypes, RcvTypes
  <2>2. SndTypes'
    BY <1>2 DEF SendData, SndTypes
  <2>3. NetTypes'
    BY <1>2, <2>0 DEF SendData, NetTypes
  <2> QED
    BY <2>1, <2>2, <2>3 DEF Types
<1>3. ASSUME NEW w \in Workers, Acknowledged(w) PROVE Types'
  <2>1. MemTypes' /\ OwnTypes' /\ FlagTypes' /\ ChanTypes' /\ RcvTypes'
    BY <1>3 DEF Acknowledged, MemTypes, OwnTypes, FlagTypes, ChanTypes, RcvTypes
  <2>2. SndTypes'
    BY <1>3 DEF Acknowledged, SndTypes
  <2>3. NetTypes'
    BY <1>3 DEF Acknowledged, NetTypes
  <2> QED
    BY <2>1, <2>2, <2>3 DEF Types
<1>4. ASSUME NEW w \in Workers, SendFails(w) PROVE Types'
  <2>1. MemTypes' /\ OwnTypes' /\ ChanTypes' /\ NetTypes' /\ RcvTypes'
    BY <1>4 DEF SendFails, Failing, MemTypes, OwnTypes, ChanTypes, NetTypes, RcvTypes
  <2>2. FlagTypes'
    BY <1>4 DEF SendFails, Failing, FlagTypes
  <2>3. SndTypes'
    BY <1>4 DEF SendFails, Failing, SndTypes
  <2> QED
    BY <2>1, <2>2, <2>3 DEF Types
<1>5. ASSUME NEW w \in Workers, Fail(w) PROVE Types'
  <2>1. MemTypes' /\ OwnTypes' /\ FlagTypes' /\ NetTypes' /\ RcvTypes'
    BY <1>5 DEF Fail, MemTypes, OwnTypes, FlagTypes, NetTypes, RcvTypes
  <2>2. ChanTypes'
    BY <1>5, TailFacts, AppendFacts DEF Fail, ChanTypes, Messages
  <2>3. SndTypes'
    BY <1>5 DEF Fail, SndTypes
  <2> QED
    BY <2>1, <2>2, <2>3 DEF Types
<1>6. ASSUME NEW w \in Workers, RecvFails(w) PROVE Types'
  <2>1. MemTypes' /\ OwnTypes' /\ ChanTypes' /\ NetTypes' /\ RcvTypes'
    BY <1>6 DEF RecvFails, Failing, MemTypes, OwnTypes, ChanTypes, NetTypes, RcvTypes
  <2>2. FlagTypes'
    BY <1>6 DEF RecvFails, Failing, FlagTypes
  <2>3. SndTypes'
    BY <1>6 DEF RecvFails, Failing, SndTypes
  <2> QED
    BY <2>1, <2>2, <2>3 DEF Types
<1>7. ASSUME NEW w \in Workers, PassGate(w) PROVE Types'
  <2>1. MemTypes' /\ OwnTypes' /\ FlagTypes' /\ ChanTypes' /\ NetTypes' /\ RcvTypes'
    BY <1>7 DEF PassGate, MemTypes, OwnTypes, FlagTypes, ChanTypes, NetTypes, RcvTypes
  <2>2. SndTypes'
    BY <1>7 DEF PassGate, SndTypes
  <2> QED
    BY <2>1, <2>2 DEF Types
<1>8. ASSUME NEW w \in Workers, Connect(w) PROVE Types'
  <2>1. MemTypes' /\ FlagTypes' /\ ChanTypes' /\ NetTypes'
    BY <1>8 DEF Connect, MemTypes, FlagTypes, ChanTypes, NetTypes
  <2>2. OwnTypes'
    BY <1>8 DEF Connect, OwnTypes, Owners, Places
  <2>3. SndTypes'
    BY <1>8 DEF Connect, SndTypes
  <2>4. RcvTypes'
    BY <1>8 DEF Connect, RcvTypes
  <2> QED
    BY <2>1, <2>2, <2>3, <2>4 DEF Types
<1>9. ASSUME NEW w \in Workers, Accept(w) PROVE Types'
  <2>1. MemTypes' /\ OwnTypes' /\ FlagTypes' /\ ChanTypes' /\ SndTypes' /\ NetTypes'
    BY <1>9
    DEF Accept, ReceiverOnly, MemTypes, OwnTypes, FlagTypes, ChanTypes, SndTypes,
        NetTypes
  <2>2. RcvTypes'
    BY <1>9 DEF Accept, ReceiverOnly, RcvTypes
  <2> QED
    BY <2>1, <2>2 DEF Types
<1>10. ASSUME NEW w \in Workers, ReadRole(w) PROVE Types'
  <2>1. MemTypes' /\ OwnTypes' /\ FlagTypes' /\ ChanTypes' /\ SndTypes' /\ NetTypes'
    BY <1>10
    DEF ReadRole, ReceiverOnly, MemTypes, OwnTypes, FlagTypes, ChanTypes, SndTypes,
        NetTypes
  <2>2. RcvTypes'
    BY <1>10 DEF ReadRole, ReceiverOnly, RcvTypes
  <2> QED
    BY <2>1, <2>2 DEF Types
<1>11. ASSUME NEW w \in Workers, ReadRequest(w) PROVE Types'
  <2>1. MemTypes' /\ OwnTypes' /\ FlagTypes' /\ ChanTypes' /\ SndTypes' /\ NetTypes'
    BY <1>11
    DEF ReadRequest, ReceiverOnly, MemTypes, OwnTypes, FlagTypes, ChanTypes, SndTypes,
        NetTypes
  <2>2. RcvTypes'
    BY <1>11 DEF ReadRequest, ReceiverOnly, RcvTypes
  <2> QED
    BY <2>1, <2>2 DEF Types
<1>12. ASSUME NEW w \in Workers, ReceiveData(w) PROVE Types'
  <2>1. OwnTypes' /\ FlagTypes' /\ ChanTypes' /\ SndTypes'
    BY <1>12 DEF ReceiveData, ReceiverOnly, OwnTypes, FlagTypes, ChanTypes, SndTypes
  <2>2. MemTypes'
    BY <1>12 DEF ReceiveData, ReceiverOnly, MemTypes, NetTypes
  <2>3. NetTypes'
    BY <1>12 DEF ReceiveData, NoData, NetTypes
  <2>4. RcvTypes'
    BY <1>12 DEF ReceiveData, RcvTypes
  <2> QED
    BY <2>1, <2>2, <2>3, <2>4 DEF Types
<1>13. ASSUME NEW w \in Workers, ReceiveFails(w) PROVE Types'
  <2>1. MemTypes' /\ OwnTypes' /\ FlagTypes' /\ ChanTypes' /\ SndTypes' /\ NetTypes'
    BY <1>13
    DEF ReceiveFails, ReceiverOnly, MemTypes, OwnTypes, FlagTypes, ChanTypes, SndTypes,
        NetTypes
  <2>2. RcvTypes'
    BY <1>13 DEF ReceiveFails, ReceiverOnly, RcvTypes
  <2> QED
    BY <2>1, <2>2 DEF Types
<1>14. ASSUME NEW w \in Workers, SendBreaks(w) PROVE Types'
  <2>1. MemTypes' /\ OwnTypes' /\ ChanTypes' /\ NetTypes' /\ RcvTypes'
    BY <1>14 DEF SendBreaks, Failing, MemTypes, OwnTypes, ChanTypes, NetTypes, RcvTypes
  <2>2. FlagTypes'
    BY <1>14 DEF SendBreaks, Failing, FlagTypes
  <2>3. SndTypes'
    BY <1>14 DEF SendBreaks, Failing, SndTypes
  <2> QED
    BY <2>1, <2>2, <2>3 DEF Types
<1>15. ASSUME NEW w \in Workers, ReceiveBreaks(w) PROVE Types'
  <2>1. MemTypes' /\ OwnTypes' /\ FlagTypes' /\ ChanTypes' /\ SndTypes' /\ NetTypes'
    BY <1>15
    DEF ReceiveBreaks, ReceiverOnly, MemTypes, OwnTypes, FlagTypes, ChanTypes,
        SndTypes, NetTypes
  <2>2. RcvTypes'
    BY <1>15 DEF ReceiveBreaks, ReceiverOnly, RcvTypes
  <2> QED
    BY <2>1, <2>2 DEF Types
<1>16. CASE Iterate
  <2>1. FlagTypes' /\ ChanTypes' /\ SndTypes' /\ NetTypes' /\ RcvTypes'
    BY <1>16 DEF Iterate, FlagTypes, ChanTypes, SndTypes, NetTypes, RcvTypes
  <2>2. MemTypes'
    BY <1>16 DEF Iterate, DirtyAfter, MemTypes
  <2>3. OwnTypes'
    <3>1. Table \in SUBSET Pages /\ own \in Owners
      BY DEF Table, MemTypes, OwnTypes
    <3>2. Send([own EXCEPT !.table = Table]) \in Owners
      BY <3>1, OwnerFacts
    <3> QED
      BY <1>16, <3>2 DEF Iterate, OwnTypes
  <2> QED
    BY <2>1, <2>2, <2>3 DEF Types
<1>17. CASE Converged
  <2>1. FlagTypes' /\ ChanTypes' /\ SndTypes' /\ NetTypes' /\ RcvTypes'
    BY <1>17 DEF Converged, FlagTypes, ChanTypes, SndTypes, NetTypes, RcvTypes
  <2>2. MemTypes'
    BY <1>17 DEF Converged, DirtyAfter, MemTypes
  <2>3. OwnTypes'
    BY <1>17 DEF Converged, Table, OwnTypes, Owners, Places, MemTypes
  <2> QED
    BY <2>1, <2>2, <2>3 DEF Types
<1>18. CASE SwitchEarly
  <2>1. MemTypes' /\ FlagTypes' /\ ChanTypes' /\ SndTypes' /\ NetTypes' /\ RcvTypes'
    BY <1>18
    DEF SwitchEarly, OwnerOnly, MemTypes, FlagTypes, ChanTypes, SndTypes, NetTypes,
        RcvTypes
  <2>2. OwnTypes'
    BY <1>18 DEF SwitchEarly, OwnTypes, Owners, Places
  <2> QED
    BY <2>1, <2>2 DEF Types
<1>19. CASE Downtime
  <2>1. FlagTypes' /\ ChanTypes' /\ SndTypes' /\ NetTypes' /\ RcvTypes'
    BY <1>19 DEF Downtime, FlagTypes, ChanTypes, SndTypes, NetTypes, RcvTypes
  <2>2. MemTypes'
    BY <1>19 DEF Downtime, MemTypes
  <2>3. OwnTypes'
    <3>1. FinalTable \in SUBSET Pages /\ own \in Owners
      BY DEF FinalTable, MemTypes, OwnTypes, Owners
    <3>2. Send([own EXCEPT !.table = FinalTable, !.final = TRUE]) \in Owners
      BY <3>1, OwnerFacts
    <3> QED
      BY <1>19, <3>2 DEF Downtime, OwnTypes
  <2> QED
    BY <2>1, <2>2, <2>3 DEF Types
<1>20. CASE SendDirectly
  <2>1. FlagTypes' /\ ChanTypes' /\ SndTypes' /\ NetTypes' /\ RcvTypes'
    BY <1>20 DEF SendDirectly, FlagTypes, ChanTypes, SndTypes, NetTypes, RcvTypes
  <2>2. MemTypes'
    BY <1>20 DEF SendDirectly, MemTypes, OwnTypes
  <2>3. OwnTypes'
    BY <1>20 DEF SendDirectly, OwnTypes, Owners
  <2> QED
    BY <2>1, <2>2, <2>3 DEF Types
<1>21. CASE SendDirectlyCancelled
  <2>1. MemTypes' /\ FlagTypes' /\ ChanTypes' /\ SndTypes' /\ NetTypes' /\ RcvTypes'
    BY <1>21
    DEF SendDirectlyCancelled, OwnerOnly, MemTypes, FlagTypes, ChanTypes, SndTypes,
        NetTypes, RcvTypes
  <2>2. OwnTypes'
    BY <1>21 DEF SendDirectlyCancelled, OwnTypes, Owners, Places
  <2> QED
    BY <2>1, <2>2 DEF Types
<1>22. CASE EnqueueChunk
  <2>1. MemTypes' /\ FlagTypes' /\ SndTypes' /\ NetTypes' /\ RcvTypes'
    BY <1>22
       DEF EnqueueChunk, OwnerOnly, MemTypes, FlagTypes, SndTypes, NetTypes, RcvTypes
  <2>2. OwnTypes'
    BY <1>22 DEF EnqueueChunk, OwnTypes, Owners, Places
  <2>3. ChanTypes'
    BY <1>22, MessageFacts, AppendFacts DEF EnqueueChunk, OwnerOnly, ChanTypes
  <2> QED
    BY <2>1, <2>2, <2>3 DEF Types
<1>23. CASE Enqueued
  <2>1. MemTypes' /\ FlagTypes' /\ ChanTypes' /\ SndTypes' /\ NetTypes' /\ RcvTypes'
    BY <1>23
    DEF Enqueued, OwnerOnly, MemTypes, FlagTypes, ChanTypes, SndTypes, NetTypes,
        RcvTypes
  <2>2. OwnTypes'
    <3>1. own \in Owners /\ {} \in SUBSET Pages
      BY DEF OwnTypes
    <3>2. [own EXCEPT !.at = "gates", !.n = 0] \in Owners
      BY <3>1 DEF Owners, Places
    <3> QED
      BY <1>23, <3>1, <3>2, OwnerFacts DEF Enqueued, OwnerOnly, OwnTypes
  <2> QED
    BY <2>1, <2>2 DEF Types
<1>24. CASE SendGate
  <2>1. MemTypes' /\ FlagTypes' /\ SndTypes' /\ NetTypes' /\ RcvTypes'
    BY <1>24 DEF SendGate, OwnerOnly, MemTypes, FlagTypes, SndTypes, NetTypes, RcvTypes
  <2>2. OwnTypes'
    <3>1. own \in Owners /\ own.n + 1 \in Nat
      BY DEF OwnTypes, Owners
    <3>2. /\ [own EXCEPT !.at = "disconnect", !.n = 0, !.res = "err"] \in Owners
          /\ [own EXCEPT !.at = "wait", !.n = 0] \in Owners
          /\ [own EXCEPT !.n = @ + 1] \in Owners
      BY <3>1 DEF Owners, Places
    <3> QED
      BY <1>24, <3>2 DEF SendGate, OwnerOnly, OwnTypes
  <2>3. ChanTypes'
    <3>1. Append(chan, GateMsg(own.round)) \in Seq(Messages)
      BY MessageFacts, AppendFacts DEF ChanTypes
    <3> QED
      BY <1>24, <3>1 DEF SendGate, OwnerOnly, ChanTypes
  <2> QED
    BY <2>1, <2>2, <2>3 DEF Types
<1>25. CASE GateSeen
  <2>1. MemTypes' /\ FlagTypes' /\ SndTypes' /\ NetTypes' /\ RcvTypes'
    BY <1>25 DEF GateSeen, MemTypes, FlagTypes, SndTypes, NetTypes, RcvTypes
  <2>2. OwnTypes'
    <3>1. own \in Owners /\ {} \in SUBSET Pages /\ own.round \in Nat
      BY DEF OwnTypes, Owners
    <3>2. own.n + 1 \in Nat /\ [own EXCEPT !.n = @ + 1] \in Owners /\ Returned(own) \in Owners
      BY <3>1, OwnerFacts DEF Owners
    <3> QED
      BY <1>25, <3>1, <3>2 DEF GateSeen, OwnTypes
  <2>3. ChanTypes'
    BY <1>25, TailFacts, AppendFacts DEF GateSeen, ChanTypes
  <2> QED
    BY <2>1, <2>2, <2>3 DEF Types
<1>26. CASE ErrorSeen
  <2>1. MemTypes' /\ FlagTypes' /\ SndTypes' /\ NetTypes' /\ RcvTypes'
    BY <1>26 DEF ErrorSeen, MemTypes, FlagTypes, SndTypes, NetTypes, RcvTypes
  <2>2. OwnTypes'
    BY <1>26 DEF ErrorSeen, Returned, OnError, OwnTypes, Owners, Places
  <2>3. ChanTypes'
    BY <1>26, TailFacts, AppendFacts DEF ErrorSeen, ChanTypes
  <2> QED
    BY <2>1, <2>2, <2>3 DEF Types
<1>27. CASE Sent
  <2>1. MemTypes' /\ FlagTypes' /\ ChanTypes' /\ SndTypes' /\ NetTypes' /\ RcvTypes'
    BY <1>27
    DEF Sent, OwnerOnly, MemTypes, FlagTypes, ChanTypes, SndTypes, NetTypes, RcvTypes
  <2>2. OwnTypes'
    BY <1>27 DEF Sent, OwnTypes, Owners, Places
  <2> QED
    BY <2>1, <2>2 DEF Types
<1>28. CASE SendDisconnect
  <2>1. MemTypes' /\ FlagTypes' /\ SndTypes' /\ NetTypes' /\ RcvTypes'
    BY <1>28
    DEF SendDisconnect, OwnerOnly, MemTypes, FlagTypes, SndTypes, NetTypes, RcvTypes
  <2>2. OwnTypes'
    BY <1>28 DEF SendDisconnect, OwnerOnly, OwnTypes, Owners
  <2>3. ChanTypes'
    BY <1>28, MessageFacts, AppendFacts DEF SendDisconnect, OwnerOnly, ChanTypes
  <2> QED
    BY <2>1, <2>2, <2>3 DEF Types
<1>29. CASE Join
  <2>1. MemTypes' /\ FlagTypes' /\ ChanTypes' /\ SndTypes' /\ NetTypes' /\ RcvTypes'
    BY <1>29
    DEF Join, OwnerOnly, MemTypes, FlagTypes, ChanTypes, SndTypes, NetTypes, RcvTypes
  <2>2. OwnTypes'
    BY <1>29 DEF Join, OwnTypes, Owners, Places
  <2> QED
    BY <2>1, <2>2 DEF Types
<1>30. CASE Abandon
  <2>1. MemTypes' /\ FlagTypes' /\ ChanTypes' /\ SndTypes' /\ NetTypes' /\ RcvTypes'
    BY <1>30
    DEF Abandon, OwnerOnly, MemTypes, FlagTypes, ChanTypes, SndTypes, NetTypes,
        RcvTypes
  <2>2. OwnTypes'
    BY <1>30 DEF Abandon, OwnTypes, Owners, Places
  <2> QED
    BY <2>1, <2>2 DEF Types
<1>31. CASE SendState
  <2>1. ChanTypes' /\ SndTypes' /\ NetTypes'
    BY <1>31 DEF SendState, ChanTypes, SndTypes, NetTypes
  <2>2. MemTypes'
    BY <1>31 DEF SendState, MemTypes
  <2>3. OwnTypes'
    BY <1>31 DEF SendState, OwnTypes, Owners, Places
  <2>4. FlagTypes'
    BY <1>31 DEF SendState, FlagTypes
  <2>5. RcvTypes'
    BY <1>31 DEF SendState, RcvTypes
  <2> QED
    BY <2>1, <2>2, <2>3, <2>4, <2>5 DEF Types
<1>32. CASE StateAnswered
  <2>1. MemTypes' /\ FlagTypes' /\ ChanTypes' /\ SndTypes' /\ NetTypes' /\ RcvTypes'
    BY <1>32
    DEF StateAnswered, OwnerOnly, MemTypes, FlagTypes, ChanTypes, SndTypes, NetTypes,
        RcvTypes
  <2>2. OwnTypes'
    BY <1>32 DEF StateAnswered, OwnTypes, Owners, Places
  <2> QED
    BY <2>1, <2>2 DEF Types
<1>33. CASE AcceptEnds
  <2>1. MemTypes' /\ OwnTypes' /\ FlagTypes' /\ ChanTypes' /\ SndTypes' /\ NetTypes'
    BY <1>33
    DEF AcceptEnds, ReceiverOnly, MemTypes, OwnTypes, FlagTypes, ChanTypes, SndTypes,
        NetTypes
  <2>2. RcvTypes'
    BY <1>33 DEF AcceptEnds, ReceiverOnly, RcvTypes
  <2> QED
    BY <2>1, <2>2 DEF Types
<1>34. CASE MainClosed
  <2>1. MemTypes' /\ OwnTypes' /\ ChanTypes' /\ SndTypes' /\ NetTypes'
    BY <1>34
       DEF MainClosed, ReceiverOnly, MemTypes, OwnTypes, ChanTypes, SndTypes, NetTypes
  <2>2. FlagTypes'
    BY <1>34 DEF MainClosed, ReceiverOnly, FlagTypes
  <2>3. RcvTypes'
    BY <1>34 DEF MainClosed, ReceiverOnly, RcvTypes
  <2> QED
    BY <2>1, <2>2, <2>3 DEF Types
<1>35. CASE CleanedUp
  <2>1. MemTypes' /\ OwnTypes' /\ FlagTypes' /\ ChanTypes' /\ SndTypes' /\ NetTypes'
    BY <1>35
    DEF CleanedUp, ReceiverOnly, MemTypes, OwnTypes, FlagTypes, ChanTypes, SndTypes,
        NetTypes
  <2>2. RcvTypes'
    BY <1>35 DEF CleanedUp, ReceiverOnly, RcvTypes
  <2> QED
    BY <2>1, <2>2 DEF Types
<1>36. CASE ConnectFails
  <2>1. MemTypes' /\ ChanTypes' /\ SndTypes' /\ NetTypes' /\ RcvTypes'
    BY <1>36 DEF ConnectFails, MemTypes, ChanTypes, SndTypes, NetTypes, RcvTypes
  <2>2. FlagTypes'
    BY <1>36 DEF ConnectFails, FlagTypes
  <2>3. OwnTypes'
    BY <1>36 DEF ConnectFails, OwnTypes, Owners, Places
  <2> QED
    BY <2>1, <2>2, <2>3 DEF Types
<1>37. CASE SpawnFails
  <2>1. MemTypes' /\ FlagTypes' /\ ChanTypes' /\ SndTypes' /\ NetTypes' /\ RcvTypes'
    BY <1>37 DEF SpawnFails, MemTypes, FlagTypes, ChanTypes, SndTypes, NetTypes, RcvTypes
  <2>2. OwnTypes'
    BY <1>37 DEF SpawnFails, OwnTypes, Owners, Places
  <2> QED
    BY <2>1, <2>2 DEF Types
<1>38. CASE GiveUp
  <2>1. MemTypes' /\ FlagTypes' /\ ChanTypes' /\ SndTypes' /\ NetTypes' /\ RcvTypes'
    BY <1>38
    DEF GiveUp, OwnerOnly, MemTypes, FlagTypes, ChanTypes, SndTypes, NetTypes,
        RcvTypes
  <2>2. OwnTypes'
    BY <1>38 DEF GiveUp, OwnTypes, Owners, Places
  <2> QED
    BY <2>1, <2>2 DEF Types
<1>39. CASE AcceptFails
  <2>1. MemTypes' /\ OwnTypes' /\ ChanTypes' /\ SndTypes' /\ NetTypes'
    BY <1>39
    DEF AcceptFails, ReceiverOnly, MemTypes, OwnTypes, ChanTypes, SndTypes, NetTypes
  <2>2. FlagTypes'
    BY <1>39 DEF AcceptFails, ReceiverOnly, FlagTypes
  <2>3. RcvTypes'
    BY <1>39 DEF AcceptFails, ReceiverOnly, RcvTypes
  <2> QED
    BY <2>1, <2>2, <2>3 DEF Types
<1>40. CASE Cancel
  <2>1. MemTypes' /\ OwnTypes' /\ ChanTypes' /\ SndTypes' /\ NetTypes' /\ RcvTypes'
    BY <1>40 DEF Cancel, MemTypes, OwnTypes, ChanTypes, SndTypes, NetTypes, RcvTypes
  <2>2. FlagTypes'
    BY <1>40 DEF Cancel, FlagTypes
  <2> QED
    BY <2>1, <2>2 DEF Types
<1>41. ASSUME NEW p \in Pages, GuestWrite(p) PROVE Types'
  <2>1. OwnTypes' /\ FlagTypes' /\ ChanTypes' /\ SndTypes' /\ NetTypes' /\ RcvTypes'
    BY <1>41, GuestWriteFacts
    DEF OwnTypes, FlagTypes, ChanTypes, SndTypes, NetTypes, RcvTypes
  <2>2. MemTypes'
    BY <1>41, GuestWriteFacts DEF MemTypes
  <2> QED
    BY <2>1, <2>2 DEF Types
<1> QED
  BY <1>1, <1>2, <1>3, <1>4, <1>5, <1>6, <1>7, <1>8, <1>9, <1>10, <1>11, <1>12, <1>13,
     <1>14, <1>15, <1>16, <1>17, <1>18, <1>19, <1>20, <1>21, <1>22, <1>23, <1>24,
     <1>25, <1>26, <1>27, <1>28, <1>29, <1>30, <1>31, <1>32, <1>33, <1>34, <1>35,
     <1>36, <1>37, <1>38, <1>39, <1>40, <1>41
  DEF Next, Step, Fault

-----------------------------------------------------------------------------
(***************************************************************************)
(* The steps by their effect on what the invariant speaks of.  Steps that  *)
(* have the same one are taken together: what the receiver does besides    *)
(* taking data, a worker that fails, and the ways in which the migration   *)
(* worker gives up.  A step with a choice is one effect for each outcome.  *)
(***************************************************************************)
Aside ==
    /\ UNCHANGED <<guest, dst, own, threads, tx, opened, channels, snd, network>>
    /\ \/ main' = main
       \/ main' = "failed" /\ own.at = "ended"
       \/ main' \in {"received", "failed"} /\ main = "cleanup"

Takes(w, pc) ==
    /\ snd[w].pc = "recv" /\ chan # <<>>
    /\ chan' = Tail(chan)
    /\ snd' = [snd EXCEPT ![w] = [pc |-> pc, page |-> Head(chan).page, gate |-> Head(chan).gate]]
    /\ UNCHANGED <<guest, dst, own, threads, tx, opened, worker_error, ack, main>>

TakesChunk(w) ==
    /\ Head(chan).kind = "memory" /\ ~worker_error /\ Takes(w, "send")
    /\ wire' = [wire EXCEPT ![w] = [at |-> "table", page |-> Head(chan).page, version |-> 0]]
    /\ notes' = notes
DropsChunk(w) ==
    Head(chan).kind = "memory" /\ worker_error /\ Takes(w, "recv") /\ UNCHANGED <<wire, notes>>
TakesGate(w) ==
    /\ Head(chan).kind = "gate" /\ Takes(w, "gate")
    /\ notes' = Append(notes, "gate") /\ wire' = wire
TakesDisconnect(w) ==
    Head(chan).kind = "disconnect" /\ Takes(w, "ok") /\ UNCHANGED <<wire, notes>>

Loses(w) ==
    /\ snd[w].pc \in {"send", "ack"} \/ (snd[w].pc = "recv" /\ ~tx)
    /\ worker_error' = TRUE
    /\ snd' = [snd EXCEPT ![w].pc = "failing"]
    /\ UNCHANGED <<guest, dst, own, threads, tx, opened, chan, notes, network, main>>

Ends ==
    /\ own.at \in {"connect", "snapshot", "state"}
    /\ own' = [own EXCEPT !.at = "ended", !.res = own'.res]
    /\ UNCHANGED <<guest, dst, threads, opened, channels, snd, network, main>>

GivesUp ==
    /\ own.at \in {"connect", "iterate", "pause", "enqueue", "gates"}
    /\ own' = [own EXCEPT !.at = "disconnect", !.n = 0, !.res = "err"]
    /\ UNCHANGED <<guest, dst, threads, tx, opened, channels, snd, network, main>>

AllEnqueued ==
    /\ own.at = "enqueue" /\ own.table = {} /\ threads # {}
    /\ own' = [own EXCEPT !.at = "gates", !.n = 0]
    /\ UNCHANGED <<guest, dst, threads, tx, opened, channels, snd, network, main>>

AllSentDirectly ==
    /\ own.at = "enqueue" /\ own.table = {} /\ threads = {} /\ own' = Returned(own)
    /\ UNCHANGED <<guest, dst, threads, tx, opened, channels, snd, network, main>>

SendsGate ==
    /\ own.at = "gates" /\ chan' = Append(chan, GateMsg(own.round))
    /\ own' = IF own.n + 1 = Cardinality(threads)
              THEN [own EXCEPT !.at = "wait", !.n = 0] ELSE [own EXCEPT !.n = @ + 1]
    /\ UNCHANGED <<guest, dst, threads, tx, opened, notes, worker_error, snd, network, main>>

SeesGate ==
    /\ own.at = "wait" /\ notes # <<>> /\ Head(notes) = "gate" /\ notes' = Tail(notes)
    /\ own.n + 1 # Cardinality(threads) /\ own' = [own EXCEPT !.n = @ + 1]
    /\ UNCHANGED <<guest, dst, threads, tx, opened, chan, worker_error, snd, network, main>>

OpensGate ==
    /\ own.at = "wait" /\ notes # <<>> /\ Head(notes) = "gate" /\ notes' = Tail(notes)
    /\ own.n + 1 = Cardinality(threads) /\ own' = Returned(own)
    /\ opened' = opened \cup {own.round}
    /\ UNCHANGED <<guest, dst, threads, tx, chan, worker_error, snd, network, main>>

\* The workers are joined.  A cleanup within the iterations ends the migration,
\* because a worker failed.
Joins ==
    /\ own.at = "disconnect" /\ \A w \in threads : snd[w].pc \in Ended
    /\ threads' = {}
    /\ \/ /\ LastCleanup /\ \A w \in threads : snd[w].pc = "ok"
          /\ own' = [own EXCEPT !.at = "snapshot", !.n = 0]
       \/ own' = [own EXCEPT !.at = "ended", !.n = 0, !.res = "err"]
    /\ UNCHANGED <<guest, dst, tx, opened, channels, snd, network, main>>

(***************************************************************************)
(* The cleanup ends well only when no worker failed and there was no error *)
(* before.                                                                 *)
(***************************************************************************)
LEMMA JoinFacts ==
    ASSUME IndInv, Join
    PROVE  Joins
<1>0. own \in Owners /\ ErrorShape
  BY DEF IndInv, Types, OwnTypes
<1>1. /\ own.at = "disconnect" /\ threads' = {}
      /\ UNCHANGED <<guest, dst, tx, opened, channels, snd, network, main>>
      /\ \A w \in threads : snd[w].pc \in Ended
  BY DEF Join, OwnerOnly, receiver, channels, AllFinished, Finished
<1>2. CASE (\E w \in threads : snd[w].pc = "err") \/ own.res = "err"
  BY <1>0, <1>1, <1>2 DEF Join, Joins, Owners
<1>3. CASE own.res # "err" /\ ~\E w \in threads : snd[w].pc = "err"
  <2>1. \A w \in threads : snd[w].pc = "ok"
    BY <1>1, <1>3 DEF Ended
  <2>2. ~worker_error
    BY <1>0, <1>1, <2>1 DEF ErrorShape
  <2>3. own.res = "ok"
    BY <1>0, <1>3 DEF Owners, Ended
  <2>4. own.then = "snapshot"
    BY <1>0, <1>1, <2>2, <2>3 DEF ErrorShape
  <2> QED
    BY <1>0, <1>1, <1>3, <2>1, <2>3, <2>4 DEF Join, Joins, LastCleanup
<1> QED
  BY <1>2, <1>3

(***************************************************************************)
(* The steps by their effect on what the invariant speaks of.              *)
(***************************************************************************)
LEMMA StepKinds ==
    ASSUME IndInv, Next
    PROVE  \/ \E w \in Workers :
                \/ TakesChunk(w) \/ DropsChunk(w) \/ TakesGate(w) \/ TakesDisconnect(w)
                \/ SendData(w) \/ Acknowledged(w) \/ Loses(w) \/ Fail(w)
                \/ PassGate(w) \/ Connect(w) \/ ReceiveData(w)
           \/ \E p \in Pages : GuestWrite(p)
           \/ Aside \/ Ends \/ GivesUp \/ Iterate \/ Converged \/ SwitchEarly \/ Downtime
           \/ SendDirectly \/ EnqueueChunk \/ AllEnqueued \/ AllSentDirectly \/ SendsGate
           \/ SeesGate \/ OpensGate \/ ErrorSeen \/ Sent \/ SendDisconnect \/ Joins \/ SendState
<1> USE DEF guest, sender, channels, network, receiver
<1>0. OwnTypes /\ ChanTypes
  BY DEF IndInv, Types
<1>1. ASSUME NEW w \in Workers, SendFails(w) \/ RecvFails(w) \/ SendBreaks(w) PROVE Loses(w)
  BY <1>1 DEF SendFails, RecvFails, SendBreaks, Failing, Loses
<1>2. ASSUME NEW w \in Workers, \/ Accept(w) \/ ReadRole(w) \/ ReadRequest(w)
                                \/ ReceiveFails(w) \/ ReceiveBreaks(w)
      PROVE  Aside
  BY <1>2
  DEF Accept, ReadRole, ReadRequest, ReceiveFails, ReceiveBreaks, ReceiverOnly, Aside
<1>3. ASSUME AcceptEnds \/ MainClosed \/ CleanedUp \/ AcceptFails \/ Cancel PROVE Aside
  BY <1>3 DEF AcceptEnds, MainClosed, CleanedUp, AcceptFails, Cancel, ReceiverOnly, Aside
<1>4. ASSUME ConnectFails \/ Abandon \/ StateAnswered PROVE Ends
  BY <1>0, <1>4 DEF ConnectFails, Abandon, StateAnswered, OwnerOnly, Ends
<1>5. ASSUME SpawnFails \/ GiveUp \/ SendDirectlyCancelled PROVE GivesUp
  BY <1>5 DEF SpawnFails, GiveUp, SendDirectlyCancelled, OwnerOnly, GivesUp
<1>6. ASSUME SendGate PROVE GivesUp \/ SendsGate
  BY <1>6 DEF SendGate, OwnerOnly, GivesUp, SendsGate
<1>7. ASSUME GateSeen PROVE SeesGate \/ OpensGate
  BY <1>7 DEF GateSeen, SeesGate, OpensGate
<1>8. ASSUME NEW w \in Workers, Take(w)
      PROVE  TakesChunk(w) \/ DropsChunk(w) \/ TakesGate(w) \/ TakesDisconnect(w)
  <2>0. Head(chan) \in Messages
    BY <1>0, <1>8, TailFacts DEF Take, ChanTypes
  <2>1. Head(chan).kind \in {"memory", "gate", "disconnect"}
    BY <2>0 DEF Messages
  <2>2. wire = [wire EXCEPT ![w] = @]
    BY DEF IndInv, Types, NetTypes
  <2> QED
    BY <1>8, <2>1, <2>2
       DEF Take, Takes, TakesChunk, DropsChunk, TakesGate, TakesDisconnect
<1>9. ASSUME Enqueued PROVE AllEnqueued \/ AllSentDirectly
  BY <1>9 DEF Enqueued, OwnerOnly, AllEnqueued, AllSentDirectly
<1> QED
  BY <1>1, <1>2, <1>3, <1>4, <1>5, <1>6, <1>7, <1>8, <1>9, JoinFacts, Zenon
  DEF Next, Step, Fault

(***************************************************************************)
(* The migration worker has seen as many workers at the gate as there are: *)
(* each of them has arrived, and none has failed.                          *)
(***************************************************************************)
LEMMA ThreadsFinite ==
    ASSUME OwnTypes
    PROVE  /\ IsFiniteSet(threads) /\ Cardinality(threads) \in Nat
           /\ IsFiniteSet(AtGate) /\ Cardinality(AtGate) \in Nat
           /\ Cardinality(AtGate) <= Cardinality(threads)
           /\ Cardinality(AtGate) = Cardinality(threads) => AtGate = threads
<1>1. IsFiniteSet(Workers)
  <2>1. Connections \in Int /\ 1 \in Int
    BY TransferAssumption
  <2> QED
    BY <2>1, FS_Interval DEF Workers
<1>2. IsFiniteSet(threads)
  BY <1>1, FS_Subset DEF OwnTypes
<1>3. AtGate \in SUBSET threads
  BY DEF AtGate
<1>4. /\ IsFiniteSet(AtGate) /\ Cardinality(AtGate) <= Cardinality(threads)
      /\ Cardinality(AtGate) = Cardinality(threads) => AtGate = threads
  BY <1>2, <1>3, FS_Subset
<1> QED
  BY <1>2, <1>4, FS_CardinalityType

(***************************************************************************)
(* Counting: when the last of the notifications is a gate and none was an  *)
(* error, every send worker is at the gate, so no chunk is in the channel, *)
(* with a worker or unacknowledged.                                        *)
(***************************************************************************)
LEMMA AllAtGate ==
    ASSUME IndInv, OpensGate
    PROVE  /\ Tail(notes) = <<>> /\ ~worker_error
           /\ \A i \in 1..Len(chan) : chan[i].kind = "disconnect"
           /\ \A w \in Workers : snd[w].pc \in {"none", "gate", "ok"}
<1>0. /\ OwnerShape /\ WorkerShape /\ ErrorShape /\ ChannelShape /\ GatesAreCounted
      /\ OwnTypes /\ ChanTypes /\ SndTypes
  BY DEF IndInv, Types
<1>1. /\ own.at = "wait" /\ notes # <<>> /\ Head(notes) = "gate"
      /\ own.n + 1 = Cardinality(threads) /\ own.n \in Nat /\ threads # {}
  BY <1>0 DEF OpensGate, OwnerShape, OwnTypes, Owners
<1>2. /\ Count(notes, {"gate"}) = Count(Tail(notes), {"gate"}) + 1
      /\ Count(Tail(notes), {"gate"}) \in Nat /\ Count(chan, Gates) \in Nat
  <2>1. chan \in Seq(Messages) /\ notes \in Seq({"gate", "error"})
    BY <1>0 DEF ChanTypes
  <2>2. Tail(notes) \in Seq({"gate", "error"})
    BY <1>1, <2>1, TailFacts
  <2>3. Count(notes, {"gate"}) = Count(Tail(notes), {"gate"}) + (IF Head(notes) \in {"gate"} THEN 1 ELSE 0)
    BY <1>1, <2>1, CountTail
  <2> QED
    BY <1>1, <2>1, <2>2, <2>3, CountType
<1>3. /\ AtGate = threads /\ Count(chan, Gates) = 0
      /\ Count(Tail(notes), {"gate"}) = 0
  BY <1>0, <1>1, <1>2, ThreadsFinite DEF GatesAreCounted
<1>4. ~worker_error
  BY <1>0, <1>1, <1>3 DEF ErrorShape, AtGate
<1>5. Tail(notes) = <<>>
  <2>1. /\ notes \in Seq({"gate", "error"}) /\ Tail(notes) \in Seq({"gate", "error"})
        /\ Len(Tail(notes)) = Len(notes) - 1
        /\ \A i \in 1..Len(Tail(notes)) : Tail(notes)[i] = notes[i + 1]
    BY <1>0, <1>1, TailFacts DEF ChanTypes
  <2>2. \A i \in 1..Len(Tail(notes)) : Tail(notes)[i] \notin {"gate"}
    BY <1>3, <2>1, CountType, Zenon
  <2>3. \A i \in 1..Len(Tail(notes)) : Tail(notes)[i] # "error"
    BY <1>0, <1>4, <2>1 DEF ErrorShape
  <2>4. \A i \in 1..Len(Tail(notes)) : Tail(notes)[i] \in {"gate", "error"}
    BY <2>1
  <2>5. Len(Tail(notes)) = 0
    <3>1. 1 \notin 1..Len(Tail(notes))
      BY <2>2, <2>3, <2>4
    <3> QED
      BY <2>1, <3>1
  <2> QED
    BY <2>1, <2>5, EmptySeq
<1>6. \A i \in 1..Len(chan) : chan[i].kind = "disconnect"
  <2>1. chan \in Seq(Messages) /\ \A i \in 1..Len(chan) : chan[i] \notin Gates
    BY <1>0, <1>3, CountType DEF ChanTypes
  <2>2. \A i \in 1..Len(chan) : chan[i].kind # "memory"
    BY <1>0, <1>1, <1>3 DEF ChannelShape, Transferring
  <2>3. \A i \in 1..Len(chan) : chan[i] \in Messages
    BY <2>1
  <2> QED
    BY <2>1, <2>2, <2>3 DEF Gates, Messages
<1>7. \A w \in Workers : snd[w].pc \in {"none", "gate", "ok"}
  BY <1>0, <1>3, <1>4 DEF WorkerShape, ErrorShape, AtGate, Ended
<1> QED
  BY <1>4, <1>5, <1>6, <1>7

(***************************************************************************)
(* Without further connections there is nobody to wait for.                *)
(***************************************************************************)
LEMMA AllQuietAlone ==
    ASSUME IndInv, AllSentDirectly
    PROVE  /\ notes = <<>> /\ ~worker_error
           /\ \A i \in 1..Len(chan) : chan[i].kind = "disconnect"
           /\ \A w \in Workers : snd[w].pc \in {"none", "gate", "ok"}
<1>0. /\ WorkerShape /\ ErrorShape /\ ChannelShape /\ GatesAreCounted
      /\ chan \in Seq(Messages) /\ notes \in Seq({"gate", "error"})
  BY DEF IndInv, Types, ChanTypes
<1>1. own.at = "enqueue" /\ threads = {}
  BY DEF AllSentDirectly
<1>2. ~worker_error
  BY <1>0, <1>1 DEF ErrorShape
<1>3. notes = <<>>
  <2>1. \A i \in 1..Len(notes) : notes[i] # "gate"
    BY <1>0, <1>1, CountType DEF GatesAreCounted
  <2>2. \A i \in 1..Len(notes) : notes[i] # "error"
    BY <1>0, <1>2 DEF ErrorShape
  <2> QED
    BY <1>0, <2>1, <2>2
<1>4. \A i \in 1..Len(chan) : chan[i].kind = "disconnect"
  <2>1. \A i \in 1..Len(chan) : chan[i] \notin Gates
    BY <1>0, <1>1, CountType DEF GatesAreCounted
  <2>3. \A i \in 1..Len(chan) : chan[i] \in Messages
    BY <1>0
  <2>2. \A i \in 1..Len(chan) : chan[i].kind # "memory"
    BY <1>0, <1>1 DEF ChannelShape, Transferring
  <2> QED
    BY <2>1, <2>2, <2>3 DEF Gates, Messages
<1>5. \A w \in Workers : snd[w].pc \in {"none", "gate", "ok"}
  BY <1>0, <1>1, <1>2 DEF WorkerShape, ErrorShape, Ended
<1> QED
  BY <1>2, <1>3, <1>4, <1>5

(***************************************************************************)
(* Between two calls of send_memory the pages that the dirty log does not  *)
(* name, and that do not remain from an iteration, are equal.              *)
(***************************************************************************)
LEMMA EqualBetween ==
    ASSUME IndInv, BetweenTransfers, Begun
    PROVE  \A p \in Pages : p \in dirty \/ p \in own.table \/ dst[p] = mem[p]
<1>1. /\ ~worker_error /\ \A i \in 1..Len(chan) : chan[i].kind = "disconnect"
      /\ \A w \in Workers : snd[w].pc \in {"none", "recv", "gate", "ok"}
  BY DEF IndInv, QuietBetween
<1>2. \A p \in Pages : UnderWay(p) => p \in own.table
  BY <1>1 DEF UnderWay
<1> QED
  BY <1>1, <1>2 DEF IndInv, PagesAreCovered

(***************************************************************************)
(* When the State command is sent the destination has the source's memory. *)
(***************************************************************************)
LEMMA StateCarriesTheRest ==
    ASSUME IndInv, SendState
    PROVE  dst' = mem' /\ own.final
<1>0. OwnerShape /\ MemTypes
  BY DEF IndInv, Types
<1>1. own.at = "snapshot" /\ BetweenTransfers /\ Begun
  BY DEF SendState, BetweenTransfers, Begun
<1>2. own.final /\ dirty = {} /\ own.table = {}
  BY <1>0, <1>1 DEF OwnerShape
<1>3. \A p \in Pages : dst[p] = mem[p]
  BY <1>1, <1>2, EqualBetween
<1>4. PICK S \in SUBSET Pages :
        /\ mem' = [p \in Pages |-> IF p \in S THEN mem[p] + 1 ELSE mem[p]]
        /\ dst' = [p \in Pages |-> IF p \in dirty \cup S THEN mem'[p] ELSE dst[p]]
  BY DEF SendState
<1>5. \A p \in Pages : dst'[p] = mem'[p]
  BY <1>3, <1>4
<1>6. dst' = [p \in Pages |-> dst'[p]] /\ mem' = [p \in Pages |-> mem'[p]]
  BY <1>4
<1> QED
  BY <1>2, <1>5, <1>6

(***************************************************************************)
(* The migration worker's table, result and gates.                         *)
(***************************************************************************)
LEMMA OwnerShapeStep ==
    ASSUME IndInv, Next
    PROVE  OwnerShape'
<1> USE TransferAssumption DEF Ended, None, guest, sender, channels, network
<1>0. /\ Types /\ OwnerShape /\ WorkerShape /\ ErrorShape /\ WireShape /\ ChannelShape
      /\ GatesAreCounted /\ QuietBetween /\ PagesAreCovered /\ Delivered
  BY DEF IndInv
<1>t. /\ MemTypes /\ OwnTypes /\ FlagTypes /\ ChanTypes /\ SndTypes /\ NetTypes /\ RcvTypes
  BY <1>0 DEF Types
<1>1. ASSUME NEW w \in Workers, TakesChunk(w) PROVE OwnerShape'
  BY <1>1, <1>0, <1>t DEF TakesChunk, Takes, OwnerShape, LastCleanup
<1>2. ASSUME NEW w \in Workers, DropsChunk(w) PROVE OwnerShape'
  BY <1>2, <1>0, <1>t DEF DropsChunk, Takes, OwnerShape, LastCleanup
<1>3. ASSUME NEW w \in Workers, TakesGate(w) PROVE OwnerShape'
  BY <1>3, <1>0, <1>t DEF TakesGate, Takes, OwnerShape, LastCleanup
<1>4. ASSUME NEW w \in Workers, TakesDisconnect(w) PROVE OwnerShape'
  BY <1>4, <1>0, <1>t DEF TakesDisconnect, Takes, OwnerShape, LastCleanup
<1>5. ASSUME NEW w \in Workers, SendData(w) PROVE OwnerShape'
  BY <1>5, <1>0, <1>t DEF SendData, OwnerShape, LastCleanup
<1>6. ASSUME NEW w \in Workers, Acknowledged(w) PROVE OwnerShape'
  BY <1>6, <1>0, <1>t DEF Acknowledged, OwnerShape, LastCleanup
<1>7. ASSUME NEW w \in Workers, Loses(w) PROVE OwnerShape'
  BY <1>7, <1>0, <1>t DEF Loses, OwnerShape, LastCleanup
<1>8. ASSUME NEW w \in Workers, Fail(w) PROVE OwnerShape'
  BY <1>8, <1>0, <1>t DEF Fail, OwnerShape, LastCleanup
<1>9. ASSUME NEW w \in Workers, PassGate(w) PROVE OwnerShape'
  BY <1>9, <1>0, <1>t DEF PassGate, OwnerShape, LastCleanup
<1>10. ASSUME NEW w \in Workers, Connect(w) PROVE OwnerShape'
  BY <1>10, <1>0, <1>t DEF Connect, OwnerShape, LastCleanup
<1>11. ASSUME NEW w \in Workers, ReceiveData(w) PROVE OwnerShape'
  BY <1>11, <1>0, <1>t DEF ReceiveData, ReceiverOnly, OwnerShape, LastCleanup
<1>12. ASSUME NEW p \in Pages, GuestWrite(p) PROVE OwnerShape'
  BY <1>12, <1>0, <1>t, GuestWriteFacts DEF OwnerShape, LastCleanup
<1>13. CASE Aside
  BY <1>13, <1>0, <1>t DEF Aside, OwnerShape, LastCleanup
<1>14. CASE Ends
  BY <1>14, <1>0, <1>t DEF Ends, OwnerShape, LastCleanup, OwnTypes, Owners
<1>15. CASE GivesUp
  BY <1>15, <1>0, <1>t DEF GivesUp, OwnerShape, LastCleanup
<1>16. CASE Iterate
  BY <1>16, <1>0, <1>t DEF Iterate, Send, Returned, OwnerShape, LastCleanup
<1>17. CASE Converged
  BY <1>17, <1>0, <1>t DEF Converged, OwnerShape, LastCleanup
<1>18. CASE SwitchEarly
  BY <1>18, <1>0, <1>t DEF SwitchEarly, OwnerShape, LastCleanup
<1>19. CASE Downtime
  BY <1>19, <1>0, <1>t DEF Downtime, Send, Returned, OwnerShape, LastCleanup
<1>20. CASE SendDirectly
  BY <1>20, <1>0, <1>t DEF SendDirectly, OwnerShape, LastCleanup
<1>21. CASE EnqueueChunk
  BY <1>21, <1>0, <1>t DEF EnqueueChunk, OwnerOnly, OwnerShape, LastCleanup
<1>22. CASE AllEnqueued
  BY <1>22, <1>0, <1>t DEF AllEnqueued, OwnerShape, LastCleanup
<1>23. CASE AllSentDirectly
  BY <1>23, <1>0, <1>t DEF AllSentDirectly, Returned, OwnerShape, LastCleanup
<1>24. CASE SendsGate
  BY <1>24, <1>0, <1>t DEF SendsGate, OwnerShape, LastCleanup
<1>25. CASE SeesGate
  BY <1>25, <1>0, <1>t DEF SeesGate, OwnerShape, LastCleanup
<1>26. CASE OpensGate
  BY <1>26, <1>0, <1>t DEF OpensGate, Returned, OwnerShape, LastCleanup
<1>27. CASE ErrorSeen
  BY <1>27, <1>0, <1>t DEF ErrorSeen, Returned, OwnerShape, LastCleanup
<1>28. CASE Sent
  BY <1>28, <1>0, <1>t DEF Sent, OwnerOnly, OwnerShape
<1>29. CASE SendDisconnect
  BY <1>29, <1>0, <1>t DEF SendDisconnect, OwnerOnly, OwnerShape, LastCleanup
<1>30. CASE Joins
  BY <1>30, <1>0, <1>t DEF Joins, OwnerShape, LastCleanup, OwnTypes, Owners
<1>31. CASE SendState
  BY <1>31, <1>0, <1>t DEF SendState, OwnerShape
<1> QED
  BY <1>t, StepKinds, Zenon,
     <1>1, <1>2, <1>3, <1>4, <1>5, <1>6, <1>7, <1>8, <1>9, <1>10, <1>11, <1>12, <1>13,
     <1>14, <1>15, <1>16, <1>17, <1>18, <1>19, <1>20, <1>21, <1>22, <1>23, <1>24, <1>25,
     <1>26, <1>27, <1>28, <1>29, <1>30, <1>31

(***************************************************************************)
(* The send workers.                                                       *)
(***************************************************************************)
LEMMA WorkerShapeStep ==
    ASSUME IndInv, Next
    PROVE  WorkerShape'
<1> USE TransferAssumption DEF Ended, None, guest, sender, channels, network
<1>0. /\ Types /\ OwnerShape /\ WorkerShape /\ ErrorShape /\ WireShape /\ ChannelShape
      /\ GatesAreCounted /\ QuietBetween /\ PagesAreCovered /\ Delivered
  BY DEF IndInv
<1>t. /\ MemTypes /\ OwnTypes /\ FlagTypes /\ ChanTypes /\ SndTypes /\ NetTypes /\ RcvTypes
  BY <1>0 DEF Types
<1>1. ASSUME NEW w \in Workers, TakesChunk(w) PROVE WorkerShape'
  BY <1>1, <1>0, <1>t
  DEF TakesChunk, Takes, WorkerShape, Transferring, BetweenTransfers, LastCleanup
<1>2. ASSUME NEW w \in Workers, DropsChunk(w) PROVE WorkerShape'
  BY <1>2, <1>0, <1>t
  DEF DropsChunk, Takes, WorkerShape, Transferring, BetweenTransfers, LastCleanup
<1>3. ASSUME NEW w \in Workers, TakesGate(w) PROVE WorkerShape'
  <2>1. /\ Head(chan) = chan[1] /\ 1 \in 1..Len(chan)
        /\ chan[1].kind = "gate" /\ chan # <<>>
    BY <1>3, <1>t, ChanFacts DEF TakesGate, Takes
  <2>2. Transferring \/ BetweenTransfers => chan[1].gate = own.round /\ own.round \in Nat
    BY <1>0, <1>t, <2>1 DEF ChannelShape, QuietBetween, OwnTypes, Owners
  <2>3. own.at # "connect"
    BY <1>0, <2>1 DEF WorkerShape
  <2> QED
    BY <1>3, <1>0, <1>t, <2>1, <2>2, <2>3
    DEF TakesGate, Takes, WorkerShape, Transferring, BetweenTransfers, LastCleanup
<1>4. ASSUME NEW w \in Workers, TakesDisconnect(w) PROVE WorkerShape'
  BY <1>4, <1>0, <1>t
  DEF TakesDisconnect, Takes, WorkerShape, Transferring, BetweenTransfers, LastCleanup
<1>5. ASSUME NEW w \in Workers, SendData(w) PROVE WorkerShape'
  BY <1>5, <1>0, <1>t
     DEF SendData, WorkerShape, Transferring, BetweenTransfers, LastCleanup
<1>6. ASSUME NEW w \in Workers, Acknowledged(w) PROVE WorkerShape'
  BY <1>6, <1>0, <1>t
  DEF Acknowledged, WorkerShape, Transferring, BetweenTransfers, LastCleanup
<1>7. ASSUME NEW w \in Workers, Loses(w) PROVE WorkerShape'
  BY <1>7, <1>0, <1>t
  DEF Loses, WorkerShape, Transferring, BetweenTransfers, LastCleanup, OwnerShape
<1>8. ASSUME NEW w \in Workers, Fail(w) PROVE WorkerShape'
  BY <1>8, <1>0, <1>t
  DEF Fail, WorkerShape, Transferring, BetweenTransfers, LastCleanup, OwnTypes
<1>9. ASSUME NEW w \in Workers, PassGate(w) PROVE WorkerShape'
  BY <1>9, <1>0, <1>t
     DEF PassGate, WorkerShape, Transferring, BetweenTransfers, LastCleanup
<1>10. ASSUME NEW w \in Workers, Connect(w) PROVE WorkerShape'
  BY <1>10, <1>0, <1>t
  DEF Connect, WorkerShape, Transferring, BetweenTransfers, LastCleanup, SndTypes
<1>11. ASSUME NEW w \in Workers, ReceiveData(w) PROVE WorkerShape'
  BY <1>11, <1>0, <1>t
  DEF ReceiveData, ReceiverOnly, WorkerShape, Transferring, BetweenTransfers,
      LastCleanup
<1>12. ASSUME NEW p \in Pages, GuestWrite(p) PROVE WorkerShape'
  BY <1>12, <1>0, <1>t, GuestWriteFacts
  DEF WorkerShape, Transferring, BetweenTransfers, LastCleanup
<1>13. CASE Aside
  BY <1>13, <1>0, <1>t DEF Aside, WorkerShape, Transferring, BetweenTransfers, LastCleanup
<1>14. CASE Ends
  BY <1>14, <1>0, <1>t DEF Ends, WorkerShape, BetweenTransfers, OwnTypes, Owners
<1>15. CASE GivesUp
  BY <1>15, <1>0, <1>t DEF GivesUp, WorkerShape, Transferring, BetweenTransfers
<1>16. CASE Iterate
  BY <1>16, <1>0, <1>t
  DEF Iterate, Send, Returned, WorkerShape, Transferring, BetweenTransfers, OwnTypes,
      Owners, SndTypes
<1>17. CASE Converged
  BY <1>17, <1>0, <1>t DEF Converged, WorkerShape, BetweenTransfers
<1>18. CASE SwitchEarly
  BY <1>18, <1>0, <1>t DEF SwitchEarly, OwnerOnly, WorkerShape, BetweenTransfers
<1>19. CASE Downtime
  BY <1>19, <1>0, <1>t
  DEF Downtime, Send, Returned, WorkerShape, BetweenTransfers, OwnTypes, Owners,
      SndTypes
<1>20. CASE SendDirectly
  BY <1>20, <1>0, <1>t DEF SendDirectly, WorkerShape, Transferring
<1>21. CASE EnqueueChunk
  BY <1>21, <1>0, <1>t DEF EnqueueChunk, OwnerOnly, WorkerShape, Transferring
<1>22. CASE AllEnqueued
  BY <1>22, <1>0, <1>t DEF AllEnqueued, WorkerShape, Transferring
<1>23. CASE AllSentDirectly
  <2>1. Transferring /\ own' = Returned(own)
    BY <1>23 DEF AllSentDirectly, Transferring
  <2>2. own'.round = own.round + 1 /\ own'.at \in {"sent", "iterate"}
    BY <1>t, <2>1 DEF Returned, OwnTypes, Owners
  <2>3. opened' \subseteq opened \cup {own.round} /\ UNCHANGED <<threads, snd>>
    BY <1>23, <1>t DEF AllSentDirectly
  <2> QED
    BY <1>0, <1>t, <2>1, <2>2, <2>3 DEF WorkerShape, OwnTypes, Owners, SndTypes
<1>24. CASE SendsGate
  BY <1>24, <1>0, <1>t DEF SendsGate, WorkerShape, Transferring
<1>25. CASE SeesGate
  BY <1>25, <1>0, <1>t DEF SeesGate, WorkerShape, Transferring
<1>26. CASE OpensGate
  <2>1. Transferring /\ own' = Returned(own)
    BY <1>26 DEF OpensGate, Transferring
  <2>2. own'.round = own.round + 1 /\ own'.at \in {"sent", "iterate"}
    BY <1>t, <2>1 DEF Returned, OwnTypes, Owners
  <2>3. opened' \subseteq opened \cup {own.round} /\ UNCHANGED <<threads, snd>>
    BY <1>26, <1>t DEF OpensGate
  <2> QED
    BY <1>0, <1>t, <2>1, <2>2, <2>3 DEF WorkerShape, OwnTypes, Owners, SndTypes
<1>27. CASE ErrorSeen
  BY <1>27, <1>0, <1>t
  DEF ErrorSeen, Returned, WorkerShape, Transferring, BetweenTransfers, LastCleanup
<1>28. CASE Sent
  BY <1>28, <1>0, <1>t DEF Sent, OwnerOnly, WorkerShape, BetweenTransfers
<1>29. CASE SendDisconnect
  BY <1>29, <1>0, <1>t
  DEF SendDisconnect, OwnerOnly, WorkerShape, Transferring, BetweenTransfers,
      LastCleanup
<1>30. CASE Joins
  BY <1>30, <1>0, <1>t
  DEF Joins, WorkerShape, Transferring, BetweenTransfers, LastCleanup, OwnTypes,
      Owners
<1>31. CASE SendState
  BY <1>31, <1>0, <1>t DEF SendState, WorkerShape, BetweenTransfers
<1> QED
  BY <1>t, StepKinds, Zenon,
     <1>1, <1>2, <1>3, <1>4, <1>5, <1>6, <1>7, <1>8, <1>9, <1>10, <1>11, <1>12, <1>13,
     <1>14, <1>15, <1>16, <1>17, <1>18, <1>19, <1>20, <1>21, <1>22, <1>23, <1>24, <1>25,
     <1>26, <1>27, <1>28, <1>29, <1>30, <1>31

(***************************************************************************)
(* What is known of an error.                                              *)
(***************************************************************************)
LEMMA ErrorShapeStep ==
    ASSUME IndInv, Next
    PROVE  ErrorShape'
<1> USE TransferAssumption DEF Ended, None, guest, sender, channels, network
<1>0. /\ Types /\ OwnerShape /\ WorkerShape /\ ErrorShape /\ WireShape /\ ChannelShape
      /\ GatesAreCounted /\ QuietBetween /\ PagesAreCovered /\ Delivered
  BY DEF IndInv
<1>t. /\ MemTypes /\ OwnTypes /\ FlagTypes /\ ChanTypes /\ SndTypes /\ NetTypes /\ RcvTypes
  BY <1>0 DEF Types
<1>1. ASSUME NEW w \in Workers, TakesChunk(w) PROVE ErrorShape'
  BY <1>1, <1>0, <1>t DEF TakesChunk, Takes, ErrorShape
<1>2. ASSUME NEW w \in Workers, DropsChunk(w) PROVE ErrorShape'
  BY <1>2, <1>0, <1>t DEF DropsChunk, Takes, ErrorShape
<1>3. ASSUME NEW w \in Workers, TakesGate(w) PROVE ErrorShape'
  BY <1>3, <1>0, <1>t DEF TakesGate, Takes, ErrorShape
<1>4. ASSUME NEW w \in Workers, TakesDisconnect(w) PROVE ErrorShape'
  BY <1>4, <1>0, <1>t DEF TakesDisconnect, Takes, ErrorShape
<1>5. ASSUME NEW w \in Workers, SendData(w) PROVE ErrorShape'
  BY <1>5, <1>0, <1>t DEF SendData, ErrorShape
<1>6. ASSUME NEW w \in Workers, Acknowledged(w) PROVE ErrorShape'
  BY <1>6, <1>0, <1>t DEF Acknowledged, ErrorShape
<1>7. ASSUME NEW w \in Workers, Loses(w) PROVE ErrorShape'
  BY <1>7, <1>0, <1>t DEF Loses, ErrorShape, SndTypes, WorkerShape
<1>8. ASSUME NEW w \in Workers, Fail(w) PROVE ErrorShape'
  BY <1>8, <1>0, <1>t DEF Fail, ErrorShape
<1>9. ASSUME NEW w \in Workers, PassGate(w) PROVE ErrorShape'
  BY <1>9, <1>0, <1>t DEF PassGate, ErrorShape
<1>10. ASSUME NEW w \in Workers, Connect(w) PROVE ErrorShape'
  BY <1>10, <1>0, <1>t DEF Connect, ErrorShape, WorkerShape
<1>11. ASSUME NEW w \in Workers, ReceiveData(w) PROVE ErrorShape'
  BY <1>11, <1>0, <1>t DEF ReceiveData, ReceiverOnly, ErrorShape
<1>12. ASSUME NEW p \in Pages, GuestWrite(p) PROVE ErrorShape'
  BY <1>12, <1>0, <1>t, GuestWriteFacts DEF ErrorShape
<1>13. CASE Aside
  BY <1>13, <1>0, <1>t DEF Aside, ErrorShape
<1>14. CASE Ends
  BY <1>14, <1>0, <1>t DEF Ends, ErrorShape, OwnTypes, Owners
<1>15. CASE GivesUp
  BY <1>15, <1>0, <1>t DEF GivesUp, ErrorShape
<1>16. CASE Iterate
  BY <1>16, <1>0, <1>t DEF Iterate, Send, Returned, ErrorShape
<1>17. CASE Converged
  BY <1>17, <1>0, <1>t DEF Converged, ErrorShape
<1>18. CASE SwitchEarly
  BY <1>18, <1>0, <1>t DEF SwitchEarly, OwnerOnly, ErrorShape
<1>19. CASE Downtime
  BY <1>19, <1>0, <1>t DEF Downtime, Send, Returned, ErrorShape
<1>20. CASE SendDirectly
  BY <1>20, <1>0, <1>t DEF SendDirectly, ErrorShape
<1>21. CASE EnqueueChunk
  BY <1>21, <1>0, <1>t DEF EnqueueChunk, OwnerOnly, ErrorShape
<1>22. CASE AllEnqueued
  BY <1>22, <1>0, <1>t DEF AllEnqueued, ErrorShape
<1>23. CASE AllSentDirectly
  BY <1>23, <1>0, <1>t DEF AllSentDirectly, Returned, ErrorShape
<1>24. CASE SendsGate
  BY <1>24, <1>0, <1>t DEF SendsGate, ErrorShape
<1>25. CASE SeesGate
  <2>1. \A i \in 1..Len(Tail(notes)) : Tail(notes)[i] = "error" => worker_error
    BY <1>25, <1>0, <1>t, ChanFacts DEF SeesGate, ErrorShape
  <2> QED
    BY <1>25, <1>0, <1>t, <2>1 DEF SeesGate, ErrorShape
<1>26. CASE OpensGate
  <2>1. \A i \in 1..Len(Tail(notes)) : Tail(notes)[i] = "error" => worker_error
    BY <1>26, <1>0, <1>t, ChanFacts DEF OpensGate, ErrorShape
  <2> QED
    BY <1>26, <1>0, <1>t, <2>1 DEF OpensGate, Returned, ErrorShape
<1>27. CASE ErrorSeen
  BY <1>27, <1>0, <1>t, ChanFacts DEF ErrorSeen, Returned, OnError, ErrorShape, SndTypes
<1>28. CASE Sent
  BY <1>28, <1>0, <1>t DEF Sent, OwnerOnly, ErrorShape
<1>29. CASE SendDisconnect
  BY <1>29, <1>0, <1>t DEF SendDisconnect, OwnerOnly, ErrorShape
<1>30. CASE Joins
  BY <1>30, <1>0, <1>t DEF Joins, ErrorShape, OwnTypes, Owners
<1>31. CASE SendState
  BY <1>31, <1>0, <1>t DEF SendState, ErrorShape
<1> QED
  BY <1>t, StepKinds, Zenon,
     <1>1, <1>2, <1>3, <1>4, <1>5, <1>6, <1>7, <1>8, <1>9, <1>10, <1>11, <1>12, <1>13,
     <1>14, <1>15, <1>16, <1>17, <1>18, <1>19, <1>20, <1>21, <1>22, <1>23, <1>24, <1>25,
     <1>26, <1>27, <1>28, <1>29, <1>30, <1>31

(***************************************************************************)
(* What is on the connections.  The dirty log is cleared only while nothing is. *)
(***************************************************************************)
LEMMA WireShapeStep ==
    ASSUME IndInv, Next
    PROVE  WireShape'
<1> USE TransferAssumption DEF Ended, None, guest, sender, channels, network
<1>0. /\ Types /\ OwnerShape /\ WorkerShape /\ ErrorShape /\ WireShape /\ ChannelShape
      /\ GatesAreCounted /\ QuietBetween /\ PagesAreCovered /\ Delivered
  BY DEF IndInv
<1>t. /\ MemTypes /\ OwnTypes /\ FlagTypes /\ ChanTypes /\ SndTypes /\ NetTypes /\ RcvTypes
  BY <1>0 DEF Types
<1>1. ASSUME NEW w \in Workers, TakesChunk(w) PROVE WireShape'
  <2>1. Head(chan).page \in Pages
    BY <1>1, <1>0, <1>t, ChanFacts DEF TakesChunk, Takes, ChannelShape
  <2> QED
    BY <1>1, <1>0, <1>t, <2>1 DEF TakesChunk, Takes, WireShape, SndTypes, NetTypes
<1>2. ASSUME NEW w \in Workers, DropsChunk(w) PROVE WireShape'
  BY <1>2, <1>0, <1>t DEF DropsChunk, Takes, WireShape
<1>3. ASSUME NEW w \in Workers, TakesGate(w) PROVE WireShape'
  BY <1>3, <1>0, <1>t DEF TakesGate, Takes, WireShape
<1>4. ASSUME NEW w \in Workers, TakesDisconnect(w) PROVE WireShape'
  BY <1>4, <1>0, <1>t DEF TakesDisconnect, Takes, WireShape
<1>5. ASSUME NEW w \in Workers, SendData(w) PROVE WireShape'
  BY <1>5, <1>0, <1>t DEF SendData, WireShape, SndTypes, NetTypes
<1>6. ASSUME NEW w \in Workers, Acknowledged(w) PROVE WireShape'
  BY <1>6, <1>0, <1>t DEF Acknowledged, WireShape, SndTypes, NetTypes
<1>7. ASSUME NEW w \in Workers, Loses(w) PROVE WireShape'
  BY <1>7, <1>0, <1>t DEF Loses, WireShape
<1>8. ASSUME NEW w \in Workers, Fail(w) PROVE WireShape'
  BY <1>8, <1>0, <1>t DEF Fail, WireShape
<1>9. ASSUME NEW w \in Workers, PassGate(w) PROVE WireShape'
  BY <1>9, <1>0, <1>t DEF PassGate, WireShape
<1>10. ASSUME NEW w \in Workers, Connect(w) PROVE WireShape'
  BY <1>10, <1>0, <1>t DEF Connect, WireShape, WorkerShape
<1>11. ASSUME NEW w \in Workers, ReceiveData(w) PROVE WireShape'
  BY <1>11, <1>0, <1>t DEF ReceiveData, NoData, ReceiverOnly, WireShape, NetTypes
<1>12. ASSUME NEW p \in Pages, GuestWrite(p) PROVE WireShape'
  BY <1>12, <1>0, <1>t, GuestWriteFacts DEF WireShape, MemTypes
<1>13. CASE Aside
  BY <1>13, <1>0, <1>t DEF Aside, WireShape
<1>14. CASE Ends
  BY <1>14, <1>0, <1>t DEF Ends, WireShape
<1>15. CASE GivesUp
  BY <1>15, <1>0, <1>t DEF GivesUp, WireShape
<1>16. CASE Iterate
  BY <1>16, <1>0, <1>t DEF Iterate, WireShape, QuietBetween, BetweenTransfers
<1>17. CASE Converged
  BY <1>17, <1>0, <1>t DEF Converged, WireShape, QuietBetween, BetweenTransfers
<1>18. CASE SwitchEarly
  BY <1>18, <1>0, <1>t DEF SwitchEarly, OwnerOnly, WireShape
<1>19. CASE Downtime
  BY <1>19, <1>0, <1>t DEF Downtime, WireShape, QuietBetween, BetweenTransfers
<1>20. CASE SendDirectly
  BY <1>20, <1>0, <1>t DEF SendDirectly, WireShape
<1>21. CASE EnqueueChunk
  BY <1>21, <1>0, <1>t DEF EnqueueChunk, OwnerOnly, WireShape
<1>22. CASE AllEnqueued
  BY <1>22, <1>0, <1>t DEF AllEnqueued, WireShape
<1>23. CASE AllSentDirectly
  BY <1>23, <1>0, <1>t DEF AllSentDirectly, WireShape
<1>24. CASE SendsGate
  BY <1>24, <1>0, <1>t DEF SendsGate, WireShape
<1>25. CASE SeesGate
  BY <1>25, <1>0, <1>t DEF SeesGate, WireShape
<1>26. CASE OpensGate
  BY <1>26, <1>0, <1>t DEF OpensGate, WireShape
<1>27. CASE ErrorSeen
  BY <1>27, <1>0, <1>t DEF ErrorSeen, WireShape
<1>28. CASE Sent
  BY <1>28, <1>0, <1>t DEF Sent, OwnerOnly, WireShape
<1>29. CASE SendDisconnect
  BY <1>29, <1>0, <1>t DEF SendDisconnect, OwnerOnly, WireShape
<1>30. CASE Joins
  BY <1>30, <1>0, <1>t DEF Joins, WireShape
<1>31. CASE SendState
  BY <1>31, <1>0, <1>t DEF SendState, WireShape, QuietBetween, BetweenTransfers
<1> QED
  BY <1>t, StepKinds, Zenon,
     <1>1, <1>2, <1>3, <1>4, <1>5, <1>6, <1>7, <1>8, <1>9, <1>10, <1>11, <1>12, <1>13,
     <1>14, <1>15, <1>16, <1>17, <1>18, <1>19, <1>20, <1>21, <1>22, <1>23, <1>24, <1>25,
     <1>26, <1>27, <1>28, <1>29, <1>30, <1>31

(***************************************************************************)
(* Taking the first message from the channel leaves the order of the rest, *)
(* as long as nobody arrives at a gate.                                    *)
(***************************************************************************)
LEMMA TakenKeepsShape ==
    ASSUME ChannelShape, ChanTypes, chan # <<>>, chan' = Tail(chan),
           AtGate' = AtGate, UNCHANGED <<own, threads>>
    PROVE  ChannelShape'
<1>1. \A i \in 1..Len(chan') : i + 1 \in 1..Len(chan) /\ chan'[i] = chan[i + 1]
  BY ChanFacts
<1>2. \A i \in 1..Len(chan') : chan'[i].kind = "memory" => chan'[i].page \in Pages
  BY <1>1 DEF ChannelShape
<1>3. ASSUME Transferring
      PROVE  \A i \in 1..Len(chan') : chan'[i].kind = "gate" => chan'[i].gate = own.round
  BY <1>1, <1>3 DEF ChannelShape
<1>4. ASSUME Transferring, NEW i \in 1..Len(chan'), NEW j \in 1..Len(chan'), i < j,
             chan'[i].kind = "gate"
      PROVE  chan'[j].kind # "memory"
  <2>1. i + 1 \in 1..Len(chan) /\ j + 1 \in 1..Len(chan) /\ i + 1 < j + 1
    BY <1>1, <1>4
  <2>2. chan[i + 1].kind = "gate" => chan[j + 1].kind # "memory"
    BY <1>4, <2>1 DEF ChannelShape
  <2> QED
    BY <1>1, <1>4, <2>2
<1>5. ASSUME Transferring, AtGate # {} \/ threads = {}
      PROVE  \A i \in 1..Len(chan') : chan'[i].kind # "memory"
  BY <1>1, <1>5 DEF ChannelShape
<1> QED
  BY <1>2, <1>3, <1>4, <1>5 DEF ChannelShape, Transferring

(***************************************************************************)
(* The order in the channel.                                               *)
(***************************************************************************)
LEMMA ChannelShapeStep ==
    ASSUME IndInv, Next
    PROVE  ChannelShape'
<1> USE TransferAssumption DEF Ended, None, guest, sender, channels, network
<1>0. /\ Types /\ OwnerShape /\ WorkerShape /\ ErrorShape /\ WireShape /\ ChannelShape
      /\ GatesAreCounted /\ QuietBetween /\ PagesAreCovered /\ Delivered
  BY DEF IndInv
<1>t. /\ MemTypes /\ OwnTypes /\ FlagTypes /\ ChanTypes /\ SndTypes /\ NetTypes /\ RcvTypes
  BY <1>0 DEF Types
<1>1. ASSUME NEW w \in Workers, TakesChunk(w) PROVE ChannelShape'
  <2>1. AtGate' = AtGate
    BY <1>1, <1>t DEF TakesChunk, Takes, AtGate
  <2>2. chan # <<>> /\ chan' = Tail(chan) /\ UNCHANGED <<own, threads>>
    BY <1>1 DEF TakesChunk, Takes
  <2> QED
    BY <1>0, <1>t, <2>1, <2>2, TakenKeepsShape
<1>2. ASSUME NEW w \in Workers, DropsChunk(w) PROVE ChannelShape'
  <2>1. AtGate' = AtGate
    BY <1>2, <1>t DEF DropsChunk, Takes, AtGate
  <2>2. chan # <<>> /\ chan' = Tail(chan) /\ UNCHANGED <<own, threads>>
    BY <1>2 DEF DropsChunk, Takes
  <2> QED
    BY <1>0, <1>t, <2>1, <2>2, TakenKeepsShape
<1>3. ASSUME NEW w \in Workers, TakesGate(w) PROVE ChannelShape'
  <2>1. \A i \in 1..Len(Tail(chan)) :
           i + 1 \in 1..Len(chan) /\ 1 < i + 1 /\ Tail(chan)[i] = chan[i + 1]
    BY <1>3, <1>t, ChanFacts DEF TakesGate, Takes
  <2>2. 1 \in 1..Len(chan) /\ chan[1].kind = "gate"
    BY <1>3, <1>t, ChanFacts DEF TakesGate, Takes
  <2>3. chan' = Tail(chan) /\ UNCHANGED <<own, threads>>
    BY <1>3 DEF TakesGate, Takes
  <2>4. ASSUME Transferring PROVE \A i \in 1..Len(Tail(chan)) : Tail(chan)[i].kind # "memory"
    BY <1>0, <2>1, <2>2, <2>4 DEF ChannelShape
  <2> QED
    BY <1>0, <2>1, <2>3, <2>4 DEF ChannelShape, Transferring
<1>4. ASSUME NEW w \in Workers, TakesDisconnect(w) PROVE ChannelShape'
  <2>1. AtGate' = AtGate
    BY <1>4, <1>t DEF TakesDisconnect, Takes, AtGate
  <2>2. chan # <<>> /\ chan' = Tail(chan) /\ UNCHANGED <<own, threads>>
    BY <1>4 DEF TakesDisconnect, Takes
  <2> QED
    BY <1>0, <1>t, <2>1, <2>2, TakenKeepsShape
<1>5. ASSUME NEW w \in Workers, SendData(w) PROVE ChannelShape'
  <2>1. AtGate' = AtGate /\ UNCHANGED <<chan, own, threads>>
    BY <1>5, <1>t DEF SendData, AtGate, SndTypes
  <2> QED
    BY <1>0, <2>1 DEF ChannelShape, Transferring
<1>6. ASSUME NEW w \in Workers, Acknowledged(w) PROVE ChannelShape'
  <2>1. AtGate' = AtGate /\ UNCHANGED <<chan, own, threads>>
    BY <1>6, <1>t DEF Acknowledged, AtGate, SndTypes
  <2> QED
    BY <1>0, <2>1 DEF ChannelShape, Transferring
<1>7. ASSUME NEW w \in Workers, Loses(w) PROVE ChannelShape'
  <2>1. AtGate' = AtGate /\ UNCHANGED <<chan, own, threads>>
    BY <1>7, <1>t DEF Loses, AtGate, SndTypes
  <2> QED
    BY <1>0, <2>1 DEF ChannelShape, Transferring
<1>8. ASSUME NEW w \in Workers, Fail(w) PROVE ChannelShape'
  <2>1. AtGate' = AtGate /\ UNCHANGED <<chan, own, threads>>
    BY <1>8, <1>t DEF Fail, AtGate, SndTypes
  <2> QED
    BY <1>0, <2>1 DEF ChannelShape, Transferring
<1>9. ASSUME NEW w \in Workers, PassGate(w) PROVE ChannelShape'
  <2>1. UNCHANGED <<chan, own, threads>>
    BY <1>9 DEF PassGate
  <2>2. ASSUME Transferring PROVE AtGate' = AtGate
    BY <1>9, <1>0, <1>t, <2>1, <2>2 DEF PassGate, MayPass, AtGate, WorkerShape, OwnTypes
  <2> QED
    BY <1>0, <2>1, <2>2 DEF ChannelShape, Transferring
<1>10. ASSUME NEW w \in Workers, Connect(w) PROVE ChannelShape'
  BY <1>10, <1>0, <1>t DEF Connect, ChannelShape, Transferring
<1>11. ASSUME NEW w \in Workers, ReceiveData(w) PROVE ChannelShape'
  <2>1. AtGate' = AtGate /\ UNCHANGED <<chan, own, threads>>
    BY <1>11, <1>t DEF ReceiveData, ReceiverOnly, AtGate
  <2> QED
    BY <1>0, <2>1 DEF ChannelShape, Transferring
<1>12. ASSUME NEW p \in Pages, GuestWrite(p) PROVE ChannelShape'
  <2>1. AtGate' = AtGate /\ UNCHANGED <<chan, own, threads>>
    BY <1>12, <1>t, GuestWriteFacts DEF AtGate, SndTypes
  <2> QED
    BY <1>0, <2>1 DEF ChannelShape, Transferring
<1>13. CASE Aside
  <2>1. AtGate' = AtGate /\ UNCHANGED <<chan, own, threads>>
    BY <1>13, <1>t DEF Aside, AtGate, SndTypes
  <2> QED
    BY <1>0, <2>1 DEF ChannelShape, Transferring
<1>14. CASE Ends
  BY <1>14, <1>0, <1>t DEF Ends, ChannelShape, Transferring, OwnTypes, Owners
<1>15. CASE GivesUp
  BY <1>15, <1>0, <1>t DEF GivesUp, ChannelShape, Transferring
<1>16. CASE Iterate
  BY <1>16, <1>0, <1>t DEF Iterate, ChannelShape, QuietBetween, BetweenTransfers
<1>17. CASE Converged
  BY <1>17, <1>0, <1>t DEF Converged, ChannelShape, Transferring
<1>18. CASE SwitchEarly
  BY <1>18, <1>0, <1>t DEF SwitchEarly, ChannelShape, Transferring
<1>19. CASE Downtime
  BY <1>19, <1>0, <1>t DEF Downtime, ChannelShape, QuietBetween, BetweenTransfers
<1>20. CASE SendDirectly
  BY <1>20, <1>0, <1>t DEF SendDirectly, ChannelShape, Transferring
<1>21. CASE EnqueueChunk
  <2>1. CASE worker_error
    BY <1>21, <1>0, <1>t, <2>1 DEF EnqueueChunk, ChannelShape, Transferring
  <2>2. CASE ~worker_error
    <3>1. /\ chan' = Append(chan, Memory(Chunk)) /\ threads # {} /\ own.table # {}
          /\ UNCHANGED <<threads, snd>> /\ own'.at = "enqueue" /\ own'.round = own.round
      BY <1>21, <1>t, <2>2 DEF EnqueueChunk, OwnerOnly
    <3>2. /\ \A i \in 1..Len(chan) : chan[i] \notin Gates
          /\ AtGate = {} /\ AtGate' = {}
      BY <1>21, <1>0, <1>t, <3>1, CountType
      DEF EnqueueChunk, GatesAreCounted, ChanTypes, AtGate
    <3>3. \A i \in 1..Len(chan) : chan[i] \in Messages
      BY <1>t DEF ChanTypes
    <3>4. /\ Len(chan) \in Nat /\ Len(chan') = Len(chan) + 1
          /\ \A i \in 1..Len(chan) : chan'[i] = chan[i]
          /\ chan'[Len(chan) + 1] = Memory(Chunk) /\ Chunk \in Pages
      BY <1>t, <3>1, MessageFacts, AppendFacts DEF ChanTypes
    <3>5. \A i \in 1..Len(chan') :
             \/ i \in 1..Len(chan) /\ chan'[i] = chan[i]
             \/ i = Len(chan) + 1 /\ chan'[i] = Memory(Chunk)
      BY <3>4
    <3>6. \A i \in 1..Len(chan') : chan'[i].kind # "gate"
      BY <3>2, <3>3, <3>5 DEF Gates, Memory
    <3>7. \A i \in 1..Len(chan') : chan'[i].kind = "memory" => chan'[i].page \in Pages
      BY <1>0, <3>4, <3>5 DEF ChannelShape, Memory
    <3> QED
      BY <3>1, <3>2, <3>6, <3>7 DEF ChannelShape
  <2> QED
    BY <2>1, <2>2
<1>22. CASE AllEnqueued
  BY <1>22, <1>0, <1>t DEF AllEnqueued, ChannelShape, AtGate, Transferring
<1>23. CASE AllSentDirectly
  BY <1>23, <1>0, <1>t DEF AllSentDirectly, Returned, ChannelShape, Transferring
<1>24. CASE SendsGate
  <2>1. /\ Len(chan) \in Nat /\ Len(Append(chan, GateMsg(own.round))) = Len(chan) + 1
        /\ \A i \in 1..Len(chan) : Append(chan, GateMsg(own.round))[i] = chan[i]
        /\ Append(chan, GateMsg(own.round))[Len(chan) + 1] = GateMsg(own.round)
    BY <1>t, MessageFacts, AppendFacts DEF ChanTypes
  <2>2. \A i \in 1..Len(Append(chan, GateMsg(own.round))) :
             \/ i \in 1..Len(chan) /\ Append(chan, GateMsg(own.round))[i] = chan[i]
             \/ i = Len(chan) + 1 /\ Append(chan, GateMsg(own.round))[i] = GateMsg(own.round)
    BY <2>1
  <2>3. /\ chan' = Append(chan, GateMsg(own.round)) /\ UNCHANGED <<threads, snd>>
        /\ Transferring /\ own'.round = own.round
    BY <1>24, <1>t DEF SendsGate, Transferring
  <2>4. AtGate' = AtGate
    BY <2>3 DEF AtGate
  <2>5. \A i \in 1..Len(chan') : chan'[i].kind = "memory" => i \in 1..Len(chan) /\ chan'[i] = chan[i]
    BY <2>2, <2>3 DEF GateMsg
  <2>6. \A i, j \in 1..Len(chan') : i < j /\ j \in 1..Len(chan) => i \in 1..Len(chan)
    BY <2>1, <2>3
  <2>7. \A i, j \in 1..Len(chan') : i < j /\ chan'[i].kind = "gate" => chan'[j].kind # "memory"
    BY <1>0, <2>2, <2>3, <2>5, <2>6 DEF ChannelShape
  <2>8. \A i \in 1..Len(chan') : chan'[i].kind = "gate" => chan'[i].gate = own.round
    BY <1>0, <2>2, <2>3 DEF ChannelShape, GateMsg
  <2> QED
    BY <1>0, <2>3, <2>4, <2>5, <2>7, <2>8 DEF ChannelShape
<1>25. CASE SeesGate
  BY <1>25, <1>0, <1>t DEF SeesGate, ChannelShape, AtGate, Transferring
<1>26. CASE OpensGate
  BY <1>26, <1>0, <1>t DEF OpensGate, Returned, ChannelShape, Transferring
<1>27. CASE ErrorSeen
  BY <1>27, <1>0, <1>t DEF ErrorSeen, ChannelShape, Transferring
<1>28. CASE Sent
  BY <1>28, <1>0, <1>t DEF Sent, ChannelShape, Transferring
<1>29. CASE SendDisconnect
  <2>1. /\ Len(chan) \in Nat /\ Len(Append(chan, Disconnect)) = Len(chan) + 1
        /\ \A i \in 1..Len(chan) : Append(chan, Disconnect)[i] = chan[i]
        /\ Append(chan, Disconnect)[Len(chan) + 1] = Disconnect
    BY <1>t, MessageFacts, AppendFacts DEF ChanTypes
  <2>2. \A i \in 1..Len(Append(chan, Disconnect)) :
             \/ i \in 1..Len(chan) /\ Append(chan, Disconnect)[i] = chan[i]
             \/ i = Len(chan) + 1 /\ Append(chan, Disconnect)[i] = Disconnect
    BY <2>1
  <2>3. own'.at = "disconnect" /\ (chan' = chan \/ chan' = Append(chan, Disconnect))
    BY <1>29, <1>t DEF SendDisconnect, OwnTypes, Owners
  <2>4. \A i \in 1..Len(chan') : chan'[i].kind = "memory" => chan'[i].page \in Pages
    BY <1>0, <2>2, <2>3 DEF ChannelShape, Disconnect
  <2> QED
    BY <2>3, <2>4 DEF ChannelShape, Transferring
<1>30. CASE Joins
  BY <1>30, <1>0, <1>t DEF Joins, ChannelShape, Transferring, OwnTypes, Owners
<1>31. CASE SendState
  BY <1>31, <1>0, <1>t DEF SendState, ChannelShape, Transferring
<1> QED
  BY <1>t, StepKinds, Zenon,
     <1>1, <1>2, <1>3, <1>4, <1>5, <1>6, <1>7, <1>8, <1>9, <1>10, <1>11, <1>12, <1>13,
     <1>14, <1>15, <1>16, <1>17, <1>18, <1>19, <1>20, <1>21, <1>22, <1>23, <1>24, <1>25,
     <1>26, <1>27, <1>28, <1>29, <1>30, <1>31

(***************************************************************************)
(* A gate for each worker, and a note of each worker at it.                *)
(***************************************************************************)
LEMMA GatesAreCountedStep ==
    ASSUME IndInv, Next
    PROVE  GatesAreCounted'
<1> USE TransferAssumption DEF Ended, None, guest, sender, channels, network
<1>0. /\ Types /\ OwnerShape /\ WorkerShape /\ ErrorShape /\ WireShape /\ ChannelShape
      /\ GatesAreCounted /\ QuietBetween /\ PagesAreCovered /\ Delivered
  BY DEF IndInv
<1>t. /\ MemTypes /\ OwnTypes /\ FlagTypes /\ ChanTypes /\ SndTypes /\ NetTypes /\ RcvTypes
  BY <1>0 DEF Types
<1>1. ASSUME NEW w \in Workers, TakesChunk(w) PROVE GatesAreCounted'
  <2>1. Head(chan) \notin Gates
    BY <1>1 DEF TakesChunk, Gates
  <2>2. Count(Tail(chan), Gates) = Count(chan, Gates)
    <3>1. chan \in Seq(Messages) /\ chan # <<>> /\ Tail(chan) \in Seq(Messages)
      BY <1>1, <1>t, TailFacts DEF ChanTypes, TakesChunk, Takes
    <3>2. Count(chan, Gates) = Count(Tail(chan), Gates) + (IF Head(chan) \in Gates THEN 1 ELSE 0)
      BY <3>1, CountTail
    <3>3. Count(Tail(chan), Gates) \in Nat
      BY <3>1, CountType
    <3> QED
      BY <2>1, <3>2, <3>3
  <2>3. AtGate' = AtGate
    BY <1>1, <1>t DEF TakesChunk, Takes, AtGate
  <2>4. chan' = Tail(chan) /\ UNCHANGED <<own, threads, notes>>
    BY <1>1 DEF TakesChunk, Takes
  <2> QED
    BY <1>0, <2>2, <2>3, <2>4 DEF GatesAreCounted
<1>2. ASSUME NEW w \in Workers, DropsChunk(w) PROVE GatesAreCounted'
  <2>1. Head(chan) \notin Gates
    BY <1>2 DEF DropsChunk, Gates
  <2>2. Count(Tail(chan), Gates) = Count(chan, Gates)
    <3>1. chan \in Seq(Messages) /\ chan # <<>> /\ Tail(chan) \in Seq(Messages)
      BY <1>2, <1>t, TailFacts DEF ChanTypes, DropsChunk, Takes
    <3>2. Count(chan, Gates) = Count(Tail(chan), Gates) + (IF Head(chan) \in Gates THEN 1 ELSE 0)
      BY <3>1, CountTail
    <3>3. Count(Tail(chan), Gates) \in Nat
      BY <3>1, CountType
    <3> QED
      BY <2>1, <3>2, <3>3
  <2>3. AtGate' = AtGate
    BY <1>2, <1>t DEF DropsChunk, Takes, AtGate
  <2>4. chan' = Tail(chan) /\ UNCHANGED <<own, threads, notes>>
    BY <1>2 DEF DropsChunk, Takes
  <2> QED
    BY <1>0, <2>2, <2>3, <2>4 DEF GatesAreCounted
<1>3. ASSUME NEW w \in Workers, TakesGate(w) PROVE GatesAreCounted'
  <2>0. /\ chan \in Seq(Messages) /\ chan # <<>> /\ notes \in Seq({"gate", "error"})
        /\ Head(chan) \in Gates /\ Head(chan) = chan[1] /\ 1 \in 1..Len(chan)
        /\ Tail(chan) \in Seq(Messages)
    BY <1>3, <1>t, TailFacts, ChanFacts DEF TakesGate, Takes, ChanTypes, Gates
  <2>1. /\ Count(chan, Gates) = Count(Tail(chan), Gates) + 1
        /\ Count(Tail(chan), Gates) \in Nat
    BY <2>0, CountTail, CountType
  <2>2. Count(notes', {"gate"}) = Count(notes, {"gate"}) + 1
    <3>1. "gate" \in {"gate"} /\ notes' = Append(notes, "gate")
      BY <1>3 DEF TakesGate
    <3> QED
      BY <2>0, <3>1, CountAppend
  <2>3. chan' = Tail(chan) /\ UNCHANGED <<own, threads>>
    BY <1>3 DEF TakesGate, Takes
  <2>4. ASSUME Transferring PROVE Cardinality(AtGate') = Cardinality(AtGate) + 1
    <3>1. w \in threads /\ w \notin AtGate
      BY <1>3, <1>0 DEF TakesGate, Takes, WorkerShape, AtGate
    <3>2. Head(chan).gate = own.round
      BY <1>0, <2>0, <2>4 DEF ChannelShape, Gates
    <3>3. AtGate' = AtGate \cup {w}
      BY <1>3, <1>t, <3>1, <3>2 DEF TakesGate, Takes, AtGate, SndTypes
    <3> QED
      BY <1>t, <3>1, <3>3, ThreadsFinite, FS_AddElement
  <2>5. /\ Count(chan', Gates) + 1 = Count(chan, Gates) /\ UNCHANGED <<own, threads>>
        /\ Count(chan', Gates) \in Nat /\ Count(notes, {"gate"}) \in Nat
        /\ own.n \in Nat /\ Cardinality(AtGate) \in Nat
    BY <1>t, <2>0, <2>1, <2>3, CountType, ThreadsFinite DEF OwnTypes, Owners
  <2>6. own.at # "enqueue"
    BY <1>0, <2>5 DEF GatesAreCounted
  <2> QED
    BY <1>0, <2>2, <2>4, <2>5, <2>6 DEF GatesAreCounted, Transferring
<1>4. ASSUME NEW w \in Workers, TakesDisconnect(w) PROVE GatesAreCounted'
  <2>1. Head(chan) \notin Gates
    BY <1>4 DEF TakesDisconnect, Gates
  <2>2. Count(Tail(chan), Gates) = Count(chan, Gates)
    <3>1. chan \in Seq(Messages) /\ chan # <<>> /\ Tail(chan) \in Seq(Messages)
      BY <1>4, <1>t, TailFacts DEF ChanTypes, TakesDisconnect, Takes
    <3>2. Count(chan, Gates) = Count(Tail(chan), Gates) + (IF Head(chan) \in Gates THEN 1 ELSE 0)
      BY <3>1, CountTail
    <3>3. Count(Tail(chan), Gates) \in Nat
      BY <3>1, CountType
    <3> QED
      BY <2>1, <3>2, <3>3
  <2>3. AtGate' = AtGate
    BY <1>4, <1>t DEF TakesDisconnect, Takes, AtGate
  <2>4. chan' = Tail(chan) /\ UNCHANGED <<own, threads, notes>>
    BY <1>4 DEF TakesDisconnect, Takes
  <2> QED
    BY <1>0, <2>2, <2>3, <2>4 DEF GatesAreCounted
<1>5. ASSUME NEW w \in Workers, SendData(w) PROVE GatesAreCounted'
  <2>1. AtGate' = AtGate /\ UNCHANGED <<chan, notes, threads>>
        /\ own'.at = own.at /\ own'.n = own.n
    BY <1>5, <1>t DEF SendData, AtGate
  <2> QED
    BY <1>0, <2>1 DEF GatesAreCounted
<1>6. ASSUME NEW w \in Workers, Acknowledged(w) PROVE GatesAreCounted'
  <2>1. AtGate' = AtGate /\ UNCHANGED <<chan, notes, threads>>
        /\ own'.at = own.at /\ own'.n = own.n
    BY <1>6, <1>t DEF Acknowledged, AtGate
  <2> QED
    BY <1>0, <2>1 DEF GatesAreCounted
<1>7. ASSUME NEW w \in Workers, Loses(w) PROVE GatesAreCounted'
  <2>1. AtGate' = AtGate /\ UNCHANGED <<chan, notes, threads>>
        /\ own'.at = own.at /\ own'.n = own.n
    BY <1>7, <1>t DEF Loses, AtGate
  <2> QED
    BY <1>0, <2>1 DEF GatesAreCounted
<1>8. ASSUME NEW w \in Workers, Fail(w) PROVE GatesAreCounted'
  <2>1. AtGate' = AtGate /\ UNCHANGED <<chan, own, threads>>
    BY <1>8, <1>t DEF Fail, AtGate, SndTypes
  <2>2. Count(notes', {"gate"}) = Count(notes, {"gate"})
    <3>1. notes \in Seq({"gate", "error"}) /\ notes' = Append(notes, "error")
      BY <1>8, <1>t DEF ChanTypes, Fail
    <3>2. Count(notes', {"gate"}) = Count(notes, {"gate"}) + (IF "error" \in {"gate"} THEN 1 ELSE 0)
      BY <3>1, CountAppend
    <3>3. Count(notes, {"gate"}) \in Nat
      BY <3>1, CountType
    <3> QED
      BY <3>2, <3>3
  <2> QED
    BY <1>0, <2>1, <2>2 DEF GatesAreCounted
<1>9. ASSUME NEW w \in Workers, PassGate(w) PROVE GatesAreCounted'
  <2>1. UNCHANGED <<chan, notes, own, threads>>
    BY <1>9 DEF PassGate
  <2>2. ASSUME Transferring PROVE AtGate' = AtGate
    BY <1>9, <1>0, <1>t, <2>1, <2>2 DEF PassGate, MayPass, AtGate, WorkerShape, OwnTypes
  <2> QED
    BY <1>0, <2>1, <2>2 DEF GatesAreCounted, Transferring
<1>10. ASSUME NEW w \in Workers, Connect(w) PROVE GatesAreCounted'
  BY <1>10, <1>0, <1>t DEF Connect, GatesAreCounted
<1>11. ASSUME NEW w \in Workers, ReceiveData(w) PROVE GatesAreCounted'
  <2>1. AtGate' = AtGate /\ UNCHANGED <<chan, notes, threads>>
        /\ own'.at = own.at /\ own'.n = own.n
    BY <1>11, <1>t DEF ReceiveData, ReceiverOnly, AtGate
  <2> QED
    BY <1>0, <2>1 DEF GatesAreCounted
<1>12. ASSUME NEW p \in Pages, GuestWrite(p) PROVE GatesAreCounted'
  <2>1. AtGate' = AtGate /\ UNCHANGED <<chan, notes, threads>>
        /\ own'.at = own.at /\ own'.n = own.n
    BY <1>12, <1>t, GuestWriteFacts DEF AtGate
  <2> QED
    BY <1>0, <2>1 DEF GatesAreCounted
<1>13. CASE Aside
  <2>1. AtGate' = AtGate /\ UNCHANGED <<chan, notes, threads>>
        /\ own'.at = own.at /\ own'.n = own.n
    BY <1>13, <1>t DEF Aside, AtGate
  <2> QED
    BY <1>0, <2>1 DEF GatesAreCounted
<1>14. CASE Ends
  BY <1>14, <1>0, <1>t DEF Ends, GatesAreCounted, OwnTypes, Owners
<1>15. CASE GivesUp
  BY <1>15, <1>0, <1>t DEF GivesUp, GatesAreCounted
<1>16. CASE Iterate
  <2>1. own'.at # "enqueue" => own'.at \notin {"gates", "wait"}
    BY <1>16, <1>t DEF Iterate, Send, Returned
  <2>2. ASSUME own'.at = "enqueue"
        PROVE  Count(chan, Gates) = 0 /\ AtGate' = {} /\ Count(notes, {"gate"}) = 0
    <3>1. /\ BetweenTransfers /\ own'.round = own.round
          /\ UNCHANGED <<threads, snd, chan, notes>>
      BY <1>16, <1>t, <2>2 DEF Iterate, Send, Returned, BetweenTransfers
    <3>2. AtGate' = {}
      BY <1>0, <1>t, <3>1 DEF AtGate, QuietBetween, OwnTypes, SndTypes
    <3>3. \A i \in 1..Len(chan) : chan[i] \notin Gates
      BY <1>0, <3>1 DEF QuietBetween, Gates
    <3>4. \A i \in 1..Len(notes) : notes[i] \notin {"gate"}
      BY <1>0, <3>1 DEF QuietBetween
    <3> QED
      BY <1>t, <3>2, <3>3, <3>4, CountType DEF ChanTypes
  <2> QED
    BY <1>16, <2>1, <2>2 DEF Iterate, GatesAreCounted
<1>17. CASE Converged
  BY <1>17, <1>0, <1>t DEF Converged, GatesAreCounted
<1>18. CASE SwitchEarly
  BY <1>18, <1>0, <1>t DEF SwitchEarly, GatesAreCounted
<1>19. CASE Downtime
  <2>1. own'.at # "enqueue" => own'.at \notin {"gates", "wait"}
    BY <1>19, <1>t DEF Downtime, Send, Returned
  <2>2. ASSUME own'.at = "enqueue"
        PROVE  Count(chan, Gates) = 0 /\ AtGate' = {} /\ Count(notes, {"gate"}) = 0
    <3>1. /\ BetweenTransfers /\ own'.round = own.round
          /\ UNCHANGED <<threads, snd, chan, notes>>
      BY <1>19, <1>t, <2>2 DEF Downtime, Send, Returned, BetweenTransfers
    <3>2. AtGate' = {}
      BY <1>0, <1>t, <3>1 DEF AtGate, QuietBetween, OwnTypes, SndTypes
    <3>3. \A i \in 1..Len(chan) : chan[i] \notin Gates
      BY <1>0, <3>1 DEF QuietBetween, Gates
    <3>4. \A i \in 1..Len(notes) : notes[i] \notin {"gate"}
      BY <1>0, <3>1 DEF QuietBetween
    <3> QED
      BY <1>t, <3>2, <3>3, <3>4, CountType DEF ChanTypes
  <2> QED
    BY <1>19, <2>1, <2>2 DEF Downtime, GatesAreCounted
<1>20. CASE SendDirectly
  <2>1. AtGate' = AtGate /\ UNCHANGED <<chan, notes, threads>>
        /\ own'.at = own.at /\ own'.n = own.n
    BY <1>20, <1>t DEF SendDirectly, AtGate
  <2> QED
    BY <1>0, <2>1 DEF GatesAreCounted
<1>21. CASE EnqueueChunk
  <2>1. CASE worker_error
    BY <1>21, <1>t, <2>1 DEF EnqueueChunk, GatesAreCounted
  <2>2. CASE ~worker_error
    <3>1. /\ chan' = Append(chan, Memory(Chunk)) /\ own.table # {} /\ own.at = "enqueue"
          /\ UNCHANGED <<threads, snd, notes>> /\ own'.at = "enqueue" /\ own'.round = own.round
      BY <1>21, <1>t, <2>2 DEF EnqueueChunk, OwnerOnly
    <3>2. /\ chan \in Seq(Messages) /\ Memory(Chunk) \in Messages
          /\ Memory(Chunk) \notin Gates
      BY <1>t, <3>1, MessageFacts DEF ChanTypes, Gates, Memory
    <3>3. Count(chan', Gates) = Count(chan, Gates) + (IF Memory(Chunk) \in Gates THEN 1 ELSE 0)
      BY <3>1, <3>2, CountAppend
    <3>4. AtGate' = AtGate
      BY <3>1 DEF AtGate
    <3>5. Count(chan, Gates) = 0 /\ AtGate = {} /\ Count(notes, {"gate"}) = 0
      BY <1>0, <3>1 DEF GatesAreCounted
    <3> QED
      BY <3>1, <3>2, <3>3, <3>4, <3>5 DEF GatesAreCounted
  <2> QED
    BY <2>1, <2>2
<1>22. CASE AllEnqueued
  <2>1. /\ Count(chan, Gates) = 0 /\ AtGate = {} /\ Count(notes, {"gate"}) = 0
        /\ own'.at = "gates" /\ own'.n = 0 /\ UNCHANGED <<chan, notes, threads>>
    BY <1>22, <1>0, <1>t DEF AllEnqueued, GatesAreCounted
  <2>2. AtGate' = {}
    BY <1>22, <1>t, <2>1 DEF AllEnqueued, AtGate
  <2>3. Cardinality({}) = 0 /\ 0 < Cardinality(threads)
    BY <1>22, <1>t, ThreadsFinite, FS_EmptySet DEF AllEnqueued
  <2> QED
    BY <2>1, <2>2, <2>3 DEF GatesAreCounted
<1>23. CASE AllSentDirectly
  BY <1>23, <1>0, <1>t DEF AllSentDirectly, Returned, GatesAreCounted
<1>24. CASE SendsGate
  <2>1. /\ chan \in Seq(Messages) /\ GateMsg(own.round) \in Gates
        /\ GateMsg(own.round) \in Messages
    BY <1>t, MessageFacts DEF ChanTypes, Gates, GateMsg
  <2>2. chan' = Append(chan, GateMsg(own.round)) /\ own.at = "gates" /\ UNCHANGED <<threads, notes>>
    BY <1>24 DEF SendsGate
  <2>3. Count(chan', Gates) = Count(chan, Gates) + 1
    BY <2>1, <2>2, CountAppend
  <2>4. AtGate' = AtGate
    BY <1>24, <1>t DEF SendsGate, AtGate
  <2>5. /\ Count(chan, Gates) + Cardinality(AtGate) = own.n /\ own.n < Cardinality(threads)
        /\ Count(notes, {"gate"}) = Cardinality(AtGate)
    BY <1>0, <2>2 DEF GatesAreCounted
  <2>6. /\ own.n \in Nat /\ Count(chan, Gates) \in Nat
        /\ Cardinality(threads) \in Nat /\ Cardinality(AtGate) \in Nat
    BY <1>t, <2>1, CountType, ThreadsFinite DEF OwnTypes, Owners
  <2>9. UNCHANGED <<threads, notes>>
    BY <2>2
  <2>7. CASE own.n + 1 = Cardinality(threads)
    <3>1. own'.at = "wait" /\ own'.n = 0
      BY <1>24, <1>t, <2>7 DEF SendsGate, OwnTypes, Owners
    <3> QED
      BY <2>3, <2>4, <2>5, <2>6, <2>7, <2>9, <3>1 DEF GatesAreCounted
  <2>8. CASE own.n + 1 # Cardinality(threads)
    <3>1. own'.at = "gates" /\ own'.n = own.n + 1
      BY <1>24, <1>t, <2>8 DEF SendsGate, OwnTypes, Owners
    <3> QED
      BY <2>3, <2>4, <2>5, <2>6, <2>8, <2>9, <3>1 DEF GatesAreCounted
  <2> QED
    BY <2>7, <2>8
<1>25. CASE SeesGate
  <2>1. Count(notes, {"gate"}) = Count(Tail(notes), {"gate"}) + 1
    <3>1. notes \in Seq({"gate", "error"}) /\ notes # <<>> /\ Head(notes) \in {"gate"}
      BY <1>25, <1>t DEF ChanTypes, SeesGate
    <3> QED
      BY <3>1, CountTail
  <2>2. AtGate' = AtGate
    BY <1>25, <1>t DEF SeesGate, AtGate
  <2>3. /\ own.n \in Nat /\ Cardinality(threads) \in Nat /\ Cardinality(AtGate) \in Nat
    BY <1>t, ThreadsFinite DEF OwnTypes, Owners
  <2>5. Count(Tail(notes), {"gate"}) \in Nat
    <3>1. Tail(notes) \in Seq({"gate", "error"})
      BY <1>25, <1>t, TailFacts DEF SeesGate, ChanTypes
    <3> QED
      BY <3>1, CountType
  <2>4. /\ own.at = "wait" /\ own'.at = "wait" /\ own'.n = own.n + 1
        /\ own.n + 1 # Cardinality(threads)
        /\ notes' = Tail(notes) /\ UNCHANGED <<chan, threads>>
    BY <1>25, <1>t DEF SeesGate, OwnTypes, Owners
  <2>6. /\ Count(notes, {"gate"}) = Count(notes', {"gate"}) + 1
        /\ Count(notes', {"gate"}) \in Nat
    BY <2>1, <2>4, <2>5
  <2>7. /\ own.n < Cardinality(threads)
        /\ Count(chan, Gates) + Cardinality(AtGate) = Cardinality(threads)
        /\ own.n + Count(notes, {"gate"}) = Cardinality(AtGate)
    BY <1>0, <2>4 DEF GatesAreCounted
  <2>8. /\ own'.at = "wait" /\ own'.n = own.n + 1 /\ own.n + 1 # Cardinality(threads)
        /\ UNCHANGED <<chan, threads>>
    BY <2>4
  <2> QED
    BY <2>2, <2>3, <2>6, <2>7, <2>8 DEF GatesAreCounted
<1>26. CASE OpensGate
  BY <1>26, <1>0, <1>t DEF OpensGate, Returned, GatesAreCounted
<1>27. CASE ErrorSeen
  BY <1>27, <1>0, <1>t DEF ErrorSeen, GatesAreCounted
<1>28. CASE Sent
  BY <1>28, <1>0, <1>t DEF Sent, GatesAreCounted
<1>29. CASE SendDisconnect
  BY <1>29, <1>0, <1>t DEF SendDisconnect, GatesAreCounted
<1>30. CASE Joins
  BY <1>30, <1>0, <1>t DEF Joins, GatesAreCounted, OwnTypes, Owners
<1>31. CASE SendState
  BY <1>31, <1>0, <1>t DEF SendState, GatesAreCounted
<1> QED
  BY <1>t, StepKinds, Zenon,
     <1>1, <1>2, <1>3, <1>4, <1>5, <1>6, <1>7, <1>8, <1>9, <1>10, <1>11, <1>12, <1>13,
     <1>14, <1>15, <1>16, <1>17, <1>18, <1>19, <1>20, <1>21, <1>22, <1>23, <1>24, <1>25,
     <1>26, <1>27, <1>28, <1>29, <1>30, <1>31

(***************************************************************************)
(* Nothing is under way between two calls of send_memory.                  *)
(***************************************************************************)
LEMMA QuietBetweenStep ==
    ASSUME IndInv, Next
    PROVE  QuietBetween'
<1> USE TransferAssumption DEF Ended, None, guest, sender, channels, network
<1>0. /\ Types /\ OwnerShape /\ WorkerShape /\ ErrorShape /\ WireShape /\ ChannelShape
      /\ GatesAreCounted /\ QuietBetween /\ PagesAreCovered /\ Delivered
  BY DEF IndInv
<1>t. /\ MemTypes /\ OwnTypes /\ FlagTypes /\ ChanTypes /\ SndTypes /\ NetTypes /\ RcvTypes
  BY <1>0 DEF Types
<1>1. ASSUME NEW w \in Workers, TakesChunk(w) PROVE QuietBetween'
  BY <1>1, <1>0, <1>t, ChanFacts
  DEF TakesChunk, Takes, QuietBetween, BetweenTransfers, LastCleanup
<1>2. ASSUME NEW w \in Workers, DropsChunk(w) PROVE QuietBetween'
  BY <1>2, <1>0, <1>t DEF DropsChunk, Takes, QuietBetween, BetweenTransfers, LastCleanup
<1>3. ASSUME NEW w \in Workers, TakesGate(w) PROVE QuietBetween'
  BY <1>3, <1>0, <1>t DEF TakesGate, Takes, QuietBetween, BetweenTransfers, LastCleanup
<1>4. ASSUME NEW w \in Workers, TakesDisconnect(w) PROVE QuietBetween'
  BY <1>4, <1>0, <1>t
  DEF TakesDisconnect, Takes, QuietBetween, BetweenTransfers, LastCleanup
<1>5. ASSUME NEW w \in Workers, SendData(w) PROVE QuietBetween'
  BY <1>5, <1>0, <1>t DEF SendData, QuietBetween, BetweenTransfers, LastCleanup
<1>6. ASSUME NEW w \in Workers, Acknowledged(w) PROVE QuietBetween'
  BY <1>6, <1>0, <1>t DEF Acknowledged, QuietBetween, BetweenTransfers, LastCleanup
<1>7. ASSUME NEW w \in Workers, Loses(w) PROVE QuietBetween'
  BY <1>7, <1>0, <1>t DEF Loses, QuietBetween, BetweenTransfers, LastCleanup, OwnerShape
<1>8. ASSUME NEW w \in Workers, Fail(w) PROVE QuietBetween'
  BY <1>8, <1>0, <1>t DEF Fail, QuietBetween, BetweenTransfers, LastCleanup
<1>9. ASSUME NEW w \in Workers, PassGate(w) PROVE QuietBetween'
  BY <1>9, <1>0, <1>t DEF PassGate, QuietBetween, BetweenTransfers, LastCleanup
<1>10. ASSUME NEW w \in Workers, Connect(w) PROVE QuietBetween'
  BY <1>10, <1>0, <1>t DEF Connect, QuietBetween, WorkerShape
<1>11. ASSUME NEW w \in Workers, ReceiveData(w) PROVE QuietBetween'
  BY <1>11, <1>0, <1>t
  DEF ReceiveData, ReceiverOnly, QuietBetween, BetweenTransfers, LastCleanup
<1>12. ASSUME NEW p \in Pages, GuestWrite(p) PROVE QuietBetween'
  BY <1>12, <1>0, <1>t, GuestWriteFacts DEF QuietBetween, BetweenTransfers, LastCleanup
<1>13. CASE Aside
  BY <1>13, <1>0, <1>t DEF Aside, QuietBetween, BetweenTransfers, LastCleanup
<1>14. CASE Ends
  BY <1>14, <1>0, <1>t
  DEF Ends, QuietBetween, BetweenTransfers, LastCleanup, OwnTypes, Owners
<1>15. CASE GivesUp
  BY <1>15, <1>0, <1>t DEF GivesUp, QuietBetween, BetweenTransfers, LastCleanup
<1>16. CASE Iterate
  BY <1>16, <1>0, <1>t
  DEF Iterate, Send, Returned, QuietBetween, BetweenTransfers, OwnTypes, Owners,
      SndTypes
<1>17. CASE Converged
  BY <1>17, <1>0, <1>t DEF Converged, QuietBetween, BetweenTransfers
<1>18. CASE SwitchEarly
  BY <1>18, <1>0, <1>t DEF SwitchEarly, OwnerOnly, QuietBetween, BetweenTransfers
<1>19. CASE Downtime
  BY <1>19, <1>0, <1>t
  DEF Downtime, Send, Returned, QuietBetween, BetweenTransfers, OwnTypes, Owners,
      SndTypes
<1>20. CASE SendDirectly
  BY <1>20, <1>0, <1>t DEF SendDirectly, QuietBetween, BetweenTransfers, LastCleanup
<1>21. CASE EnqueueChunk
  BY <1>21, <1>0, <1>t DEF EnqueueChunk, QuietBetween, BetweenTransfers, LastCleanup
<1>22. CASE AllEnqueued
  BY <1>22, <1>0, <1>t DEF AllEnqueued, QuietBetween, BetweenTransfers, LastCleanup
<1>23. CASE AllSentDirectly
  <2>1. /\ notes = <<>> /\ ~worker_error
        /\ \A i \in 1..Len(chan) : chan[i].kind = "disconnect"
        /\ \A w \in Workers : snd[w].pc \in {"none", "gate", "ok"}
    BY <1>23, AllQuietAlone
  <2>2. \A w \in Workers : snd[w].pc = "gate" => snd[w].gate <= own.round
    BY <1>23, <1>0 DEF AllSentDirectly, WorkerShape, Transferring
  <2>3. own'.round = own.round + 1
    BY <1>23, <1>t DEF AllSentDirectly, Returned
  <2> QED
    BY <1>23, <1>t, <2>1, <2>2, <2>3
    DEF AllSentDirectly, QuietBetween, OwnTypes, Owners, SndTypes
<1>24. CASE SendsGate
  BY <1>24, <1>0, <1>t DEF SendsGate, QuietBetween, BetweenTransfers, LastCleanup
<1>25. CASE SeesGate
  BY <1>25, <1>0, <1>t DEF SeesGate, QuietBetween, BetweenTransfers, LastCleanup
<1>26. CASE OpensGate
  <2>1. /\ Tail(notes) = <<>> /\ ~worker_error
        /\ \A i \in 1..Len(chan) : chan[i].kind = "disconnect"
        /\ \A w \in Workers : snd[w].pc \in {"none", "gate", "ok"}
    BY <1>26, AllAtGate
  <2>2. \A w \in Workers : snd[w].pc = "gate" => snd[w].gate <= own.round
    BY <1>26, <1>0 DEF OpensGate, WorkerShape, Transferring
  <2>3. own'.round = own.round + 1
    BY <1>26, <1>t DEF OpensGate, Returned
  <2> QED
    BY <1>26, <1>t, <2>1, <2>2, <2>3
       DEF OpensGate, QuietBetween, OwnTypes, Owners, SndTypes
<1>27. CASE ErrorSeen
  BY <1>27, <1>0, <1>t
     DEF ErrorSeen, Returned, QuietBetween, BetweenTransfers, LastCleanup
<1>28. CASE Sent
  BY <1>28, <1>0, <1>t DEF Sent, OwnerOnly, QuietBetween, BetweenTransfers
<1>29. CASE SendDisconnect
  <2>1. /\ Len(chan) \in Nat /\ Len(Append(chan, Disconnect)) = Len(chan) + 1
        /\ \A i \in 1..Len(chan) : Append(chan, Disconnect)[i] = chan[i]
        /\ Append(chan, Disconnect)[Len(chan) + 1] = Disconnect
    BY <1>t, MessageFacts, AppendFacts DEF ChanTypes
  <2>2. \A i \in 1..Len(Append(chan, Disconnect)) :
             \/ i \in 1..Len(chan) /\ Append(chan, Disconnect)[i] = chan[i]
             \/ i = Len(chan) + 1 /\ Append(chan, Disconnect)[i] = Disconnect
    BY <2>1
  <2>3. /\ chan' = chan \/ chan' = Append(chan, Disconnect)
        /\ LastCleanup' = LastCleanup /\ own'.at = own.at /\ own'.round = own.round
        /\ UNCHANGED <<worker_error, notes, snd>>
    BY <1>29, <1>t DEF SendDisconnect, OwnerOnly, LastCleanup
  <2>4. ASSUME BetweenTransfers PROVE \A i \in 1..Len(chan') : chan'[i].kind = "disconnect"
    <3>1. \A i \in 1..Len(chan) : chan[i].kind = "disconnect"
      BY <1>0, <2>4 DEF QuietBetween
    <3>2. CASE chan' = chan
      BY <3>1, <3>2
    <3>3. CASE chan' = Append(chan, Disconnect)
      <4>1. Disconnect.kind = "disconnect"
        BY DEF Disconnect
      <4> QED
        BY <2>2, <3>1, <3>3, <4>1
    <3> QED
      BY <2>3, <3>2, <3>3
  <2> QED
    BY <1>0, <2>3, <2>4 DEF QuietBetween, BetweenTransfers
<1>30. CASE Joins
  BY <1>30, <1>0, <1>t
  DEF Joins, QuietBetween, BetweenTransfers, LastCleanup, OwnTypes, Owners
<1>31. CASE SendState
  BY <1>31, <1>0, <1>t DEF SendState, QuietBetween, BetweenTransfers
<1> QED
  BY <1>t, StepKinds, Zenon,
     <1>1, <1>2, <1>3, <1>4, <1>5, <1>6, <1>7, <1>8, <1>9, <1>10, <1>11, <1>12, <1>13,
     <1>14, <1>15, <1>16, <1>17, <1>18, <1>19, <1>20, <1>21, <1>22, <1>23, <1>24, <1>25,
     <1>26, <1>27, <1>28, <1>29, <1>30, <1>31

(***************************************************************************)
(* A page that the destination lacks is in the dirty log, or is still to be *)
(* sent, or is under way.                                                  *)
(***************************************************************************)
LEMMA PagesAreCoveredStep ==
    ASSUME IndInv, Next
    PROVE  PagesAreCovered'
<1> USE TransferAssumption DEF Ended, None, guest, sender, channels, network
<1>0. /\ Types /\ OwnerShape /\ WorkerShape /\ ErrorShape /\ WireShape /\ ChannelShape
      /\ GatesAreCounted /\ QuietBetween /\ PagesAreCovered /\ Delivered
  BY DEF IndInv
<1>t. /\ MemTypes /\ OwnTypes /\ FlagTypes /\ ChanTypes /\ SndTypes /\ NetTypes /\ RcvTypes
  BY <1>0 DEF Types
<1>1. ASSUME NEW w \in Workers, TakesChunk(w) PROVE PagesAreCovered'
  <2>1. UNCHANGED <<own, mem, dst, dirty, worker_error>>
    BY <1>1 DEF TakesChunk, Takes
  <2>2. \A i \in 1..Len(chan) : i = 1 \/ (i - 1 \in 1..Len(Tail(chan)) /\ Tail(chan)[i - 1] = chan[i])
    BY <1>1, <1>t, ChanFacts DEF TakesChunk, Takes
  <2>3. Head(chan) = chan[1] /\ chan' = Tail(chan)
    BY <1>1, <1>t, ChanFacts DEF TakesChunk, Takes
  <2>4. \A v \in Workers : v # w => snd'[v] = snd[v] /\ ack'[v] = ack[v]
    BY <1>1, <1>t DEF TakesChunk, Takes, SndTypes
  <2>5. snd[w].pc = "recv"
    BY <1>1 DEF TakesChunk, Takes
  <2>6. snd'[w].pc = "send" /\ snd'[w].page = chan[1].page
    BY <1>1, <1>t, <2>3 DEF TakesChunk, Takes, SndTypes
  <2>7. ASSUME NEW p \in Pages, UnderWay(p) PROVE UnderWay(p)'
    <3>1. CASE p \in own.table
      BY <2>1, <3>1 DEF UnderWay
    <3>2. ASSUME NEW i \in 1..Len(chan), chan[i].kind = "memory", chan[i].page = p PROVE UnderWay(p)'
      BY <2>2, <2>3, <2>6, <3>2 DEF UnderWay
    <3>3. ASSUME NEW v \in Workers, snd[v].page = p,
                 snd[v].pc = "send" \/ (snd[v].pc = "ack" /\ ~ack[v])
          PROVE  UnderWay(p)'
      BY <2>4, <2>5, <3>3 DEF UnderWay
    <3> QED
      BY <2>7, <3>1, <3>2, <3>3 DEF UnderWay
  <2> QED
    BY <1>0, <2>1, <2>7
    DEF PagesAreCovered, Begun, Transferring, BetweenTransfers, LastCleanup
<1>2. ASSUME NEW w \in Workers, DropsChunk(w) PROVE PagesAreCovered'
  BY <1>2, <1>0 DEF DropsChunk, Takes, PagesAreCovered
<1>3. ASSUME NEW w \in Workers, TakesGate(w) PROVE PagesAreCovered'
  <2>1. UNCHANGED <<own, mem, dst, dirty, worker_error>>
    BY <1>3 DEF TakesGate, Takes
  <2>2. \A i \in 1..Len(chan) : i = 1 \/ (i - 1 \in 1..Len(Tail(chan)) /\ Tail(chan)[i - 1] = chan[i])
    BY <1>3, <1>t, ChanFacts DEF TakesGate, Takes
  <2>3. Head(chan) = chan[1] /\ chan' = Tail(chan)
    BY <1>3, <1>t, ChanFacts DEF TakesGate, Takes
  <2>4. \A v \in Workers : v # w => snd'[v] = snd[v] /\ ack'[v] = ack[v]
    BY <1>3, <1>t DEF TakesGate, Takes, SndTypes
  <2>5. snd[w].pc = "recv"
    BY <1>3 DEF TakesGate, Takes
  <2>6. chan[1].kind # "memory"
    BY <1>3, <2>3 DEF TakesGate
  <2>7. ASSUME NEW p \in Pages, UnderWay(p) PROVE UnderWay(p)'
    <3>1. CASE p \in own.table
      BY <2>1, <3>1 DEF UnderWay
    <3>2. ASSUME NEW i \in 1..Len(chan), chan[i].kind = "memory", chan[i].page = p PROVE UnderWay(p)'
      BY <2>2, <2>3, <2>6, <3>2 DEF UnderWay
    <3>3. ASSUME NEW v \in Workers, snd[v].page = p,
                 snd[v].pc = "send" \/ (snd[v].pc = "ack" /\ ~ack[v])
          PROVE  UnderWay(p)'
      BY <2>4, <2>5, <3>3 DEF UnderWay
    <3> QED
      BY <2>7, <3>1, <3>2, <3>3 DEF UnderWay
  <2> QED
    BY <1>0, <2>1, <2>7
    DEF PagesAreCovered, Begun, Transferring, BetweenTransfers, LastCleanup
<1>4. ASSUME NEW w \in Workers, TakesDisconnect(w) PROVE PagesAreCovered'
  <2>1. UNCHANGED <<own, mem, dst, dirty, worker_error>>
    BY <1>4 DEF TakesDisconnect, Takes
  <2>2. \A i \in 1..Len(chan) : i = 1 \/ (i - 1 \in 1..Len(Tail(chan)) /\ Tail(chan)[i - 1] = chan[i])
    BY <1>4, <1>t, ChanFacts DEF TakesDisconnect, Takes
  <2>3. Head(chan) = chan[1] /\ chan' = Tail(chan)
    BY <1>4, <1>t, ChanFacts DEF TakesDisconnect, Takes
  <2>4. \A v \in Workers : v # w => snd'[v] = snd[v] /\ ack'[v] = ack[v]
    BY <1>4, <1>t DEF TakesDisconnect, Takes, SndTypes
  <2>5. snd[w].pc = "recv"
    BY <1>4 DEF TakesDisconnect, Takes
  <2>6. chan[1].kind # "memory"
    BY <1>4, <2>3 DEF TakesDisconnect
  <2>7. ASSUME NEW p \in Pages, UnderWay(p) PROVE UnderWay(p)'
    <3>1. CASE p \in own.table
      BY <2>1, <3>1 DEF UnderWay
    <3>2. ASSUME NEW i \in 1..Len(chan), chan[i].kind = "memory", chan[i].page = p PROVE UnderWay(p)'
      BY <2>2, <2>3, <2>6, <3>2 DEF UnderWay
    <3>3. ASSUME NEW v \in Workers, snd[v].page = p,
                 snd[v].pc = "send" \/ (snd[v].pc = "ack" /\ ~ack[v])
          PROVE  UnderWay(p)'
      BY <2>4, <2>5, <3>3 DEF UnderWay
    <3> QED
      BY <2>7, <3>1, <3>2, <3>3 DEF UnderWay
  <2> QED
    BY <1>0, <2>1, <2>7
    DEF PagesAreCovered, Begun, Transferring, BetweenTransfers, LastCleanup
<1>5. ASSUME NEW w \in Workers, SendData(w) PROVE PagesAreCovered'
  <2>1. /\ UNCHANGED <<own, mem, dst, worker_error>> /\ dirty \subseteq dirty'
        /\ \A p \in Pages : UnderWay(p) => UnderWay(p)'
    BY <1>5, <1>0, <1>t DEF SendData, UnderWay, WireShape
  <2> QED
    BY <1>0, <2>1 DEF PagesAreCovered, Begun, Transferring, BetweenTransfers, LastCleanup
<1>6. ASSUME NEW w \in Workers, Acknowledged(w) PROVE PagesAreCovered'
  <2>1. /\ UNCHANGED <<own, mem, dst, worker_error>> /\ dirty \subseteq dirty'
        /\ \A p \in Pages : UnderWay(p) => UnderWay(p)'
    BY <1>6, <1>0, <1>t DEF Acknowledged, UnderWay
  <2> QED
    BY <1>0, <2>1 DEF PagesAreCovered, Begun, Transferring, BetweenTransfers, LastCleanup
<1>7. ASSUME NEW w \in Workers, Loses(w) PROVE PagesAreCovered'
  BY <1>7 DEF Loses, PagesAreCovered
<1>8. ASSUME NEW w \in Workers, Fail(w) PROVE PagesAreCovered'
  <2>1. /\ UNCHANGED <<own, mem, dst, worker_error>> /\ dirty \subseteq dirty'
        /\ \A p \in Pages : UnderWay(p) => UnderWay(p)'
    BY <1>8, <1>0, <1>t DEF Fail, UnderWay, SndTypes
  <2> QED
    BY <1>0, <2>1 DEF PagesAreCovered, Begun, Transferring, BetweenTransfers, LastCleanup
<1>9. ASSUME NEW w \in Workers, PassGate(w) PROVE PagesAreCovered'
  <2>1. /\ UNCHANGED <<own, mem, dst, worker_error>> /\ dirty \subseteq dirty'
        /\ \A p \in Pages : UnderWay(p) => UnderWay(p)'
    BY <1>9, <1>0, <1>t DEF PassGate, UnderWay
  <2> QED
    BY <1>0, <2>1 DEF PagesAreCovered, Begun, Transferring, BetweenTransfers, LastCleanup
<1>10. ASSUME NEW w \in Workers, Connect(w) PROVE PagesAreCovered'
  BY <1>10, <1>0, <1>t
  DEF Connect, PagesAreCovered, Begun, Transferring, BetweenTransfers, LastCleanup,
      OwnerShape
<1>11. ASSUME NEW w \in Workers, ReceiveData(w) PROVE PagesAreCovered'
  <2>1. UNCHANGED <<own, mem, dirty, worker_error, chan, snd>>
    BY <1>11 DEF ReceiveData, ReceiverOnly
  <2>2. CASE worker_error
    BY <2>1, <2>2 DEF PagesAreCovered
  <2>3. CASE ~worker_error
    <3>1. snd[w].pc \notin {"failing", "err"} /\ wire[w].at = "data"
      BY <1>11, <1>0, <2>3 DEF ReceiveData, ErrorShape
    <3>2. snd[w].pc = "ack" /\ ~ack[w]
      BY <1>0, <1>t, <3>1 DEF WireShape, SndTypes, NetTypes
    <3>3. /\ wire[w].page = snd[w].page /\ snd[w].page \in Pages
          /\ wire[w].version = mem[snd[w].page] \/ snd[w].page \in dirty
      BY <1>0, <3>2 DEF WireShape
    <3>4. \A p \in Pages : dst'[p] = IF p = snd[w].page THEN wire[w].version ELSE dst[p]
      BY <1>11, <1>t, <3>3 DEF ReceiveData, MemTypes
    <3>5. \A v \in Workers : v # w => ack'[v] = ack[v]
      BY <1>11, <1>t DEF ReceiveData, NetTypes
    <3>6. ASSUME NEW p \in Pages, p # snd[w].page, UnderWay(p) PROVE UnderWay(p)'
      BY <2>1, <3>5, <3>6 DEF UnderWay
    <3> QED
      BY <1>0, <2>1, <3>3, <3>4, <3>6
      DEF PagesAreCovered, Begun, Transferring, BetweenTransfers, LastCleanup
  <2> QED
    BY <2>2, <2>3
<1>12. ASSUME NEW p \in Pages, GuestWrite(p) PROVE PagesAreCovered'
  <2>1. /\ UNCHANGED <<own, dst, worker_error>> /\ dirty' = dirty \cup {p}
        /\ \A q \in Pages : q = p \/ mem'[q] = mem[q]
    BY <1>12, <1>t, GuestWriteFacts DEF MemTypes
  <2>2. \A q \in Pages : UnderWay(q)' <=> UnderWay(q)
    BY <1>12, <2>1, GuestWriteFacts DEF UnderWay
  <2> QED
    BY <1>0, <2>1, <2>2
    DEF PagesAreCovered, Begun, Transferring, BetweenTransfers, LastCleanup
<1>13. CASE Aside
  <2>1. /\ UNCHANGED <<own, mem, dst, worker_error>> /\ dirty \subseteq dirty'
        /\ \A p \in Pages : UnderWay(p) => UnderWay(p)'
    BY <1>13, <1>0, <1>t DEF Aside, UnderWay, SndTypes
  <2> QED
    BY <1>0, <2>1 DEF PagesAreCovered, Begun, Transferring, BetweenTransfers, LastCleanup
<1>14. CASE Ends
  BY <1>14, <1>0, <1>t
  DEF Ends, PagesAreCovered, Transferring, BetweenTransfers, LastCleanup, OwnTypes,
      Owners
<1>15. CASE GivesUp
  BY <1>15, <1>0, <1>t
  DEF GivesUp, PagesAreCovered, Transferring, BetweenTransfers, LastCleanup
<1>16. CASE Iterate
  <2>1. own.at = "iterate" /\ BetweenTransfers
    BY <1>16 DEF Iterate, BetweenTransfers
  <2>2. own'.table \cup dirty' = own.table \cup dirty \/ own'.table = Pages
    BY <1>16, <1>0, <1>t, <2>1 DEF Iterate, Send, Returned, Table, DirtyAfter, OwnerShape
  <2>3. Begun \/ own'.table = Pages
    BY <1>16, <1>t DEF Iterate, Send, Returned, Table, Begun, OwnTypes, Owners
  <2>4. UNCHANGED <<mem, dst>>
    BY <1>16 DEF Iterate
  <2>5. \A p \in Pages : p \in dirty' \/ p \in own'.table \/ dst'[p] = mem'[p]
    BY <2>1, <2>2, <2>3, <2>4, EqualBetween
  <2> QED
    BY <2>5 DEF PagesAreCovered, UnderWay
<1>17. CASE Converged
  <2>1. own.at = "iterate" /\ BetweenTransfers
    BY <1>17 DEF Converged, BetweenTransfers
  <2>2. own'.table \cup dirty' = own.table \cup dirty \/ own'.table = Pages
    BY <1>17, <1>0, <1>t, <2>1 DEF Converged, Table, DirtyAfter, OwnerShape
  <2>3. Begun \/ own'.table = Pages
    BY <1>17, <1>t DEF Converged, Table, Begun, OwnTypes, Owners
  <2>4. UNCHANGED <<mem, dst>>
    BY <1>17 DEF Converged, Table, DirtyAfter
  <2>5. \A p \in Pages : p \in dirty' \/ p \in own'.table \/ dst'[p] = mem'[p]
    BY <2>1, <2>2, <2>3, <2>4, EqualBetween
  <2> QED
    BY <2>5 DEF PagesAreCovered, UnderWay
<1>18. CASE SwitchEarly
  <2>1. own.at = "iterate" /\ BetweenTransfers
    BY <1>18 DEF SwitchEarly, BetweenTransfers
  <2>2. own'.table \cup dirty' = own.table \cup dirty \/ own'.table = Pages
    BY <1>18, <1>0, <1>t, <2>1 DEF SwitchEarly, OwnerOnly, OwnerShape
  <2>3. Begun \/ own'.table = Pages
    BY <1>18, <1>t DEF SwitchEarly, Begun
  <2>4. UNCHANGED <<mem, dst>>
    BY <1>18 DEF SwitchEarly, OwnerOnly
  <2>5. \A p \in Pages : p \in dirty' \/ p \in own'.table \/ dst'[p] = mem'[p]
    BY <2>1, <2>2, <2>3, <2>4, EqualBetween
  <2> QED
    BY <2>5 DEF PagesAreCovered, UnderWay
<1>19. CASE Downtime
  <2>1. own.at = "pause" /\ BetweenTransfers
    BY <1>19 DEF Downtime, BetweenTransfers
  <2>2. own'.table \cup dirty' = own.table \cup dirty \/ own'.table = Pages
    BY <1>19, <1>0, <1>t, <2>1 DEF Downtime, Send, Returned, FinalTable
  <2>3. Begun \/ own'.table = Pages
    BY <1>19, <1>t DEF Downtime, Begun
  <2>4. UNCHANGED <<mem, dst>>
    BY <1>19 DEF Downtime
  <2>5. \A p \in Pages : p \in dirty' \/ p \in own'.table \/ dst'[p] = mem'[p]
    BY <2>1, <2>2, <2>3, <2>4, EqualBetween
  <2> QED
    BY <2>5 DEF PagesAreCovered, UnderWay
<1>20. CASE SendDirectly
  <2>1. Chunk \in Pages /\ own.at = "enqueue"
    BY <1>20, <1>t, MessageFacts DEF SendDirectly
  <2>2. /\ UNCHANGED <<mem, dirty, worker_error, chan, snd, ack>> /\ own'.table = own.table \ {Chunk}
        /\ \A p \in Pages : dst'[p] = IF p = Chunk THEN mem[p] ELSE dst[p]
    BY <1>20, <1>t, <2>1 DEF SendDirectly, MemTypes
  <2>3. ASSUME NEW p \in Pages, p # Chunk, UnderWay(p) PROVE UnderWay(p)'
    BY <2>2, <2>3 DEF UnderWay
  <2> QED
    BY <1>0, <2>1, <2>2, <2>3 DEF PagesAreCovered, Begun, Transferring
<1>21. CASE EnqueueChunk
  <2>1. CASE worker_error
    BY <1>21, <2>1 DEF EnqueueChunk, OwnerOnly, PagesAreCovered
  <2>2. CASE ~worker_error
    <3>1. /\ UNCHANGED <<mem, dst, dirty, worker_error, snd, ack>> /\ own.at = "enqueue"
          /\ own'.table = own.table \ {Chunk} /\ own.table # {}
          /\ chan' = Append(chan, Memory(Chunk))
      BY <1>21, <1>t, <2>2 DEF EnqueueChunk, OwnerOnly
    <3>2. /\ Len(chan) \in Nat /\ Len(chan') = Len(chan) + 1
          /\ \A i \in 1..Len(chan) : i \in 1..Len(chan') /\ chan'[i] = chan[i]
          /\ Len(chan) + 1 \in 1..Len(chan') /\ chan'[Len(chan) + 1] = Memory(Chunk)
      BY <1>t, <3>1, MessageFacts, AppendFacts DEF ChanTypes
    <3>3. ASSUME NEW p \in Pages, p = Chunk PROVE UnderWay(p)'
      BY <3>2, <3>3 DEF UnderWay, Memory
    <3>4. ASSUME NEW p \in Pages, UnderWay(p) PROVE UnderWay(p)'
      <4>1. CASE p \in own.table
        BY <3>1, <3>3, <4>1 DEF UnderWay
      <4>2. CASE p \notin own.table
        BY <3>1, <3>2, <3>4, <4>2 DEF UnderWay
      <4> QED
        BY <4>1, <4>2
    <3> QED
      BY <1>0, <3>1, <3>4 DEF PagesAreCovered, Begun, Transferring
  <2> QED
    BY <2>1, <2>2
<1>22. CASE AllEnqueued
  <2>1. Transferring /\ Begun
    BY <1>22, <1>t DEF AllEnqueued, Transferring, Begun
  <2>2. /\ UNCHANGED <<mem, dst, dirty, worker_error>>
        /\ \A p \in Pages : UnderWay(p) => UnderWay(p)'
    BY <1>22, <1>0, <1>t DEF AllEnqueued, UnderWay
  <2> QED
    BY <1>0, <2>1, <2>2 DEF PagesAreCovered
<1>23. CASE AllSentDirectly
  <2>1. Transferring /\ Begun
    BY <1>23, <1>t DEF AllSentDirectly, Transferring, Begun
  <2>2. /\ UNCHANGED <<mem, dst, dirty, worker_error>>
        /\ \A p \in Pages : UnderWay(p) => UnderWay(p)'
    BY <1>23, <1>0, <1>t DEF AllSentDirectly, UnderWay
  <2> QED
    BY <1>0, <2>1, <2>2 DEF PagesAreCovered
<1>24. CASE SendsGate
  <2>0. \A i \in 1..Len(chan) : i \in 1..Len(chan') /\ chan'[i] = chan[i]
    BY <1>24, <1>t, MessageFacts, AppendFacts DEF SendsGate, ChanTypes
  <2>1. Transferring /\ Begun
    BY <1>24, <1>t DEF SendsGate, Transferring, Begun
  <2>2. /\ UNCHANGED <<mem, dst, dirty, worker_error>>
        /\ \A p \in Pages : UnderWay(p) => UnderWay(p)'
    BY <1>24, <1>0, <1>t, <2>0 DEF SendsGate, UnderWay
  <2> QED
    BY <1>0, <2>1, <2>2 DEF PagesAreCovered
<1>25. CASE SeesGate
  <2>1. Transferring /\ Begun
    BY <1>25, <1>t DEF SeesGate, Transferring, Begun
  <2>2. /\ UNCHANGED <<mem, dst, dirty, worker_error>>
        /\ \A p \in Pages : UnderWay(p) => UnderWay(p)'
    BY <1>25, <1>0, <1>t DEF SeesGate, UnderWay
  <2> QED
    BY <1>0, <2>1, <2>2 DEF PagesAreCovered
<1>26. CASE OpensGate
  <2>1. Transferring /\ Begun
    BY <1>26, <1>t DEF OpensGate, Transferring, Begun
  <2>2. /\ UNCHANGED <<mem, dst, dirty, worker_error>>
        /\ \A p \in Pages : UnderWay(p) => UnderWay(p)'
    BY <1>26, <1>0, <1>t DEF OpensGate, Returned, UnderWay
  <2> QED
    BY <1>0, <2>1, <2>2 DEF PagesAreCovered
<1>27. CASE ErrorSeen
  BY <1>27, <1>0, <1>t
  DEF ErrorSeen, Returned, PagesAreCovered, Transferring, BetweenTransfers,
      LastCleanup
<1>28. CASE Sent
  <2>1. BetweenTransfers /\ Begun
    BY <1>28, <1>t DEF Sent, BetweenTransfers, Begun
  <2>2. /\ UNCHANGED <<mem, dst, dirty, worker_error>>
        /\ \A p \in Pages : UnderWay(p) => UnderWay(p)'
    BY <1>28, <1>0, <1>t DEF Sent, OwnerOnly, UnderWay
  <2> QED
    BY <1>0, <2>1, <2>2 DEF PagesAreCovered
<1>29. CASE SendDisconnect
  <2>1. BetweenTransfers' /\ ~Transferring' => BetweenTransfers /\ Begun
    BY <1>29, <1>t DEF SendDisconnect, BetweenTransfers, LastCleanup, Begun
  <2>2. /\ ~Transferring' /\ UNCHANGED <<mem, dst, dirty>> /\ own'.table = own.table
    BY <1>29, <1>t DEF SendDisconnect, OwnerOnly, Transferring
  <2>3. ASSUME BetweenTransfers' PROVE \A p \in Pages : p \in dirty \/ p \in own.table \/ dst[p] = mem[p]
    BY <2>1, <2>2, <2>3, EqualBetween
  <2> QED
    BY <2>2, <2>3 DEF PagesAreCovered, UnderWay
<1>30. CASE Joins
  <2>1. /\ UNCHANGED <<mem, dst, dirty, worker_error>> /\ own'.table = own.table
        /\ LastCleanup \/ own'.at = "ended"
    BY <1>30, <1>t DEF Joins, OwnTypes, Owners
  <2>2. \A p \in Pages : UnderWay(p) => UnderWay(p)'
    BY <1>30, <2>1 DEF Joins, UnderWay
  <2> QED
    BY <1>0, <2>1, <2>2
    DEF PagesAreCovered, Begun, Transferring, BetweenTransfers, LastCleanup
<1>31. CASE SendState
  <2>1. dst' = mem'
    BY <1>31, StateCarriesTheRest
  <2> QED
    BY <2>1 DEF PagesAreCovered
<1> QED
  BY <1>t, StepKinds, Zenon,
     <1>1, <1>2, <1>3, <1>4, <1>5, <1>6, <1>7, <1>8, <1>9, <1>10, <1>11, <1>12, <1>13,
     <1>14, <1>15, <1>16, <1>17, <1>18, <1>19, <1>20, <1>21, <1>22, <1>23, <1>24, <1>25,
     <1>26, <1>27, <1>28, <1>29, <1>30, <1>31

(***************************************************************************)
(* What the receiver has been told.                                        *)
(***************************************************************************)
LEMMA DeliveredStep ==
    ASSUME IndInv, Next
    PROVE  Delivered'
<1> USE TransferAssumption DEF Ended, None, guest, sender, channels, network
<1>0. /\ Types /\ OwnerShape /\ WorkerShape /\ ErrorShape /\ WireShape /\ ChannelShape
      /\ GatesAreCounted /\ QuietBetween /\ PagesAreCovered /\ Delivered
  BY DEF IndInv
<1>t. /\ MemTypes /\ OwnTypes /\ FlagTypes /\ ChanTypes /\ SndTypes /\ NetTypes /\ RcvTypes
  BY <1>0 DEF Types
<1>1. ASSUME NEW w \in Workers, TakesChunk(w) PROVE Delivered'
  BY <1>1, <1>0, <1>t DEF TakesChunk, Takes, Delivered
<1>2. ASSUME NEW w \in Workers, DropsChunk(w) PROVE Delivered'
  BY <1>2, <1>0, <1>t DEF DropsChunk, Takes, Delivered
<1>3. ASSUME NEW w \in Workers, TakesGate(w) PROVE Delivered'
  BY <1>3, <1>0, <1>t DEF TakesGate, Takes, Delivered
<1>4. ASSUME NEW w \in Workers, TakesDisconnect(w) PROVE Delivered'
  BY <1>4, <1>0, <1>t DEF TakesDisconnect, Takes, Delivered
<1>5. ASSUME NEW w \in Workers, SendData(w) PROVE Delivered'
  BY <1>5, <1>0, <1>t DEF SendData, Delivered, receiver
<1>6. ASSUME NEW w \in Workers, Acknowledged(w) PROVE Delivered'
  BY <1>6, <1>0, <1>t DEF Acknowledged, Delivered, receiver
<1>7. ASSUME NEW w \in Workers, Loses(w) PROVE Delivered'
  BY <1>7, <1>0, <1>t DEF Loses, Delivered
<1>8. ASSUME NEW w \in Workers, Fail(w) PROVE Delivered'
  BY <1>8, <1>0, <1>t DEF Fail, Delivered, receiver
<1>9. ASSUME NEW w \in Workers, PassGate(w) PROVE Delivered'
  BY <1>9, <1>0, <1>t DEF PassGate, Delivered, receiver
<1>10. ASSUME NEW w \in Workers, Connect(w) PROVE Delivered'
  BY <1>10, <1>0, <1>t DEF Connect, Delivered
<1>11. ASSUME NEW w \in Workers, ReceiveData(w) PROVE Delivered'
  BY <1>11, <1>0, <1>t DEF ReceiveData, ReceiverOnly, Delivered, WireShape
<1>12. ASSUME NEW p \in Pages, GuestWrite(p) PROVE Delivered'
  BY <1>12, <1>0, <1>t, GuestWriteFacts DEF Delivered, receiver
<1>13. CASE Aside
  BY <1>13, <1>0, <1>t DEF Aside, Delivered
<1>14. CASE Ends
  BY <1>14, <1>0, <1>t DEF Ends, Delivered, OwnTypes, Owners
<1>15. CASE GivesUp
  BY <1>15, <1>0, <1>t DEF GivesUp, Delivered
<1>16. CASE Iterate
  BY <1>16, <1>0, <1>t DEF Iterate, Delivered, receiver
<1>17. CASE Converged
  BY <1>17, <1>0, <1>t DEF Converged, Delivered, receiver
<1>18. CASE SwitchEarly
  BY <1>18, <1>0, <1>t DEF SwitchEarly, OwnerOnly, Delivered, receiver
<1>19. CASE Downtime
  BY <1>19, <1>0, <1>t DEF Downtime, Delivered, receiver
<1>20. CASE SendDirectly
  BY <1>20, <1>0, <1>t DEF SendDirectly, Delivered, receiver
<1>21. CASE EnqueueChunk
  BY <1>21, <1>0, <1>t DEF EnqueueChunk, OwnerOnly, Delivered, receiver
<1>22. CASE AllEnqueued
  BY <1>22, <1>0, <1>t DEF AllEnqueued, Delivered
<1>23. CASE AllSentDirectly
  BY <1>23, <1>0, <1>t DEF AllSentDirectly, Delivered
<1>24. CASE SendsGate
  BY <1>24, <1>0, <1>t DEF SendsGate, Delivered
<1>25. CASE SeesGate
  BY <1>25, <1>0, <1>t DEF SeesGate, Delivered
<1>26. CASE OpensGate
  BY <1>26, <1>0, <1>t DEF OpensGate, Delivered
<1>27. CASE ErrorSeen
  BY <1>27, <1>0, <1>t DEF ErrorSeen, Delivered, receiver
<1>28. CASE Sent
  BY <1>28, <1>0, <1>t DEF Sent, OwnerOnly, Delivered, receiver
<1>29. CASE SendDisconnect
  BY <1>29, <1>0, <1>t DEF SendDisconnect, OwnerOnly, Delivered, receiver
<1>30. CASE Joins
  BY <1>30, <1>0, <1>t DEF Joins, Delivered
<1>31. CASE SendState
  <2>1. dst' = mem' /\ own.final
    BY <1>31, StateCarriesTheRest
  <2>2. \A w \in Workers : snd[w].pc \in {"none", "ok"}
    BY <1>31, <1>0 DEF SendState, OwnerShape, WorkerShape, QuietBetween, BetweenTransfers
  <2> QED
    BY <1>31, <1>t, <2>1, <2>2 DEF SendState, Delivered
<1> QED
  BY <1>t, StepKinds, Zenon,
     <1>1, <1>2, <1>3, <1>4, <1>5, <1>6, <1>7, <1>8, <1>9, <1>10, <1>11, <1>12, <1>13,
     <1>14, <1>15, <1>16, <1>17, <1>18, <1>19, <1>20, <1>21, <1>22, <1>23, <1>24, <1>25,
     <1>26, <1>27, <1>28, <1>29, <1>30, <1>31

-----------------------------------------------------------------------------
(***************************************************************************)
(* The invariant holds when the transfer begins.                           *)
(***************************************************************************)
LEMMA IndInvInit == Init => IndInv
<1> SUFFICES ASSUME Init PROVE IndInv
  OBVIOUS
<1> USE TransferAssumption DEF Init, Ended, None
<1>0. PICK a \in {"connect", "iterate"} :
        own = [at |-> a, n |-> 0, table |-> {}, round |-> 0, final |-> FALSE,
               then |-> "iterate", res |-> "ok"]
  <2>1. own = [at |-> own.at, n |-> 0, table |-> {}, round |-> 0, final |-> FALSE,
               then |-> "iterate", res |-> "ok"]
    OBVIOUS
  <2>2. own.at \in {"connect", "iterate"}
    OBVIOUS
  <2> QED
    BY <2>1, <2>2
<1>1. Types
  <2>1. MemTypes /\ ChanTypes
    BY DEF MemTypes, ChanTypes
  <2>4. FlagTypes
    BY DEF FlagTypes
  <2>2. OwnTypes
    <3>1. own \in Owners
      BY <1>0 DEF Owners, Places
    <3> QED
      BY <3>1 DEF OwnTypes
  <2>3. SndTypes /\ NetTypes /\ RcvTypes
    BY DEF SndTypes, NetTypes, RcvTypes, NoWorker, NoData
  <2> QED
    BY <2>1, <2>2, <2>3, <2>4 DEF Types
<1>2. OwnerShape /\ WorkerShape /\ ErrorShape
  <2>1. OwnerShape
    BY <1>0 DEF OwnerShape, LastCleanup
  <2>2. WorkerShape
    BY <1>0 DEF WorkerShape, NoWorker
  <2>3. ErrorShape
    BY <1>0 DEF ErrorShape, NoWorker
  <2> QED
    BY <2>1, <2>2, <2>3
<1>3. WireShape /\ ChannelShape /\ QuietBetween
  BY DEF WireShape, ChannelShape, QuietBetween, NoWorker, NoData
<1>4. GatesAreCounted /\ Delivered
  BY DEF GatesAreCounted, Delivered
<1>5. PagesAreCovered
  BY DEF PagesAreCovered, Transferring, BetweenTransfers, LastCleanup, Begun
<1> QED
  BY <1>1, <1>2, <1>3, <1>4, <1>5 DEF IndInv

(***************************************************************************)
(* Every step preserves the invariant.                                     *)
(***************************************************************************)
LEMMA IndInvNext == IndInv /\ [Next]_vars => IndInv'
<1> SUFFICES ASSUME IndInv, [Next]_vars PROVE IndInv'
  OBVIOUS
<1>1. CASE Next
  <2>1. Types'
    BY <1>1, TypesStep DEF IndInv
  <2> QED
    BY <1>1, <2>1, OwnerShapeStep, WorkerShapeStep, ErrorShapeStep, WireShapeStep,
       ChannelShapeStep, GatesAreCountedStep, QuietBetweenStep, PagesAreCoveredStep,
       DeliveredStep
    DEF IndInv
<1>2. CASE UNCHANGED vars
  <2> USE <1>2 DEF IndInv, vars, guest, sender, channels, network, receiver
  <2>1. Types'
    BY DEF Types, MemTypes, OwnTypes, FlagTypes, ChanTypes, SndTypes, NetTypes, RcvTypes
  <2>2. OwnerShape' /\ WorkerShape' /\ ErrorShape'
    BY DEF OwnerShape, WorkerShape, ErrorShape, LastCleanup, Transferring,
       BetweenTransfers
  <2>3. WireShape' /\ ChannelShape' /\ QuietBetween'
    BY
    DEF WireShape, ChannelShape, QuietBetween, AtGate, Transferring, BetweenTransfers,
        LastCleanup
  <2>4. GatesAreCounted' /\ Delivered'
    BY DEF GatesAreCounted, Delivered, AtGate
  <2>5. PagesAreCovered'
    BY DEF PagesAreCovered, UnderWay, Transferring, BetweenTransfers, LastCleanup, Begun
  <2> QED
    BY <2>1, <2>2, <2>3, <2>4, <2>5
<1> QED
  BY <1>1, <1>2

(***************************************************************************)
(* IndInv holds in every state of a transfer.                              *)
(***************************************************************************)
THEOREM IndInvHolds == Spec => []IndInv
  BY IndInvInit, IndInvNext, PTL DEF Spec

(***************************************************************************)
(* When send_memory has returned, the destination has every page that the  *)
(* guest did not write since: all workers had arrived at the gate, so none *)
(* of the chunks is in the channel or on a connection                      *)
(* (wait_for_pending_data).                                                *)
(***************************************************************************)
THEOREM IterationsAreComplete == Spec => []IterationIsComplete
<1>1. IndInv => IterationIsComplete
  <2> SUFFICES ASSUME IndInv, own.at = "iterate", own.round > 0
               PROVE  \A p \in Pages \ dirty : dst[p] = mem[p]
    BY DEF IterationIsComplete
  <2>1. own.table = {}
    BY DEF IndInv, OwnerShape
  <2> QED
    BY <2>1, EqualBetween DEF BetweenTransfers, Begun
<1> QED
  BY <1>1, IndInvHolds, PTL

(***************************************************************************)
(* A receiver that accepts the State command has the source's memory, with *)
(* any number of connections and whichever of them failed before.          *)
(***************************************************************************)
THEOREM ReceivedMemoryIsEqual == Spec => []DestinationIsEqual
<1>1. IndInv => DestinationIsEqual
  BY DEF IndInv, Delivered, DestinationIsEqual
<1> QED
  BY <1>1, IndInvHolds, PTL
=============================================================================
