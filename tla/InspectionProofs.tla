-------------------------- MODULE InspectionProofs --------------------------
(***************************************************************************)
(* Proofs about Inspection, for every set of connections, every script and *)
(* every size of the buffers and of the ring: updateHttp never reads a     *)
(* response that is not there, what the page lists is what it can replay,  *)
(* and a response is shown under its own request.                          *)
(***************************************************************************)
EXTENDS Inspection, TLAPS

Ids == Conns \X Nat
Chunks == {s \in Seq(Int) : s # <<>>}
Transactions == [req : Int, resp : Int, shown : {"no", "request", "response"}]

\* What is on the way to the readers; a response is never NoResponse.
CopiesOK ==
    /\ sent \in [Conns -> Nat] /\ answered \in [Conns -> Nat]
    /\ wch \in [Conns -> Seq(Chunks)] /\ rch \in [Conns -> Seq(Chunks)]
    /\ \A c \in Conns : \A i \in 1..Len(rch[c]) : Head(rch[c][i]) # NoResponse

\* What the readers and the view have are txns that there are.
ReadersOK ==
    /\ txns \in [Conns -> Seq(Transactions)] /\ at \in [Conns -> Nat]
    /\ rq \in [Conns -> {"off", "read", "hand", "tell", "done"}]
    /\ rs \in [Conns -> {"off", "range", "read", "tell", "drain", "done"}]
    /\ queue \in Seq(Ids)
    /\ \A i \in 1..Len(queue) : queue[i][2] \in 1..Len(txns[queue[i][1]])
    /\ \A c \in Conns : rq[c] \in {"hand", "tell"} => Len(txns[c]) > 0
    /\ \A c \in Conns : rs[c] \in {"read", "tell"} => at[c] \in 1..Len(txns[c])

\* A request without a response that is still to be told is news to the view.
UntoldIsNew ==
    \A c \in Conns :
        LET last == <<c, Len(txns[c])>> IN
        rq[c] \in {"hand", "tell"} /\ TxnOf(last).resp = NoResponse =>
            /\ TxnOf(last).shown = "no"
            /\ \A i \in 1..Len(queue) : queue[i] # last

\* What readResponses tells has a response.
ToldIsAnswered == \A c \in Conns : rs[c] = "tell" => TxnOf(<<c, at[c]>>).resp # NoResponse

\* The ring while the lock is free and while it is held.
RingShape ==
    /\ view \in {"select", "add"}
    /\ ring \in Seq(Ids) /\ Len(ring) <= RingCapacity
    /\ \A i, j \in 1..Len(ring) : ring[i] = ring[j] => i = j
    /\ view = "select" => idToTxn = {ring[i] : i \in 1..Len(ring)}
    /\ view = "add" =>
        /\ adding \in Ids
        /\ idToTxn = {ring[i] : i \in 1..Len(ring)} \cup {adding}
        /\ \A i \in 1..Len(ring) : ring[i] # adding

\* What it lists was shown.
RingTxns ==
    /\ \A i \in 1..Len(ring) :
        ring[i][2] \in 1..Len(txns[ring[i][1]]) /\ TxnOf(ring[i]).shown # "no"
    /\ view = "add" => adding[2] \in 1..Len(txns[adding[1]]) /\ TxnOf(adding).shown # "no"

RingOK == RingShape /\ RingTxns

UpdatesInv == CopiesOK /\ ReadersOK /\ UntoldIsNew /\ ToldIsAnswered /\ KnownTxnsHaveResponses

IndInv == UpdatesInv /\ RingOK

-----------------------------------------------------------------------------
(* What the operators return                                               *)

\* Set changes one value of a function.
LEMMA SetChangesOne ==
    ASSUME NEW S, NEW f \in [Conns -> S], NEW c \in Conns, NEW x \in S
    PROVE  /\ Set(f, c, x) \in [Conns -> S]
           /\ \A d \in Conns : Set(f, c, x)[d] = IF d = c THEN x ELSE f[d]
BY DEF Set

\* A channel is offered one chunk, and takes it or not.
LEMMA OfferAppends ==
    ASSUME NEW ch \in [Conns -> Seq(Chunks)], NEW c \in Conns, NEW chunk \in Chunks
    PROVE  /\ Offer(ch, c, chunk) \in [Conns -> Seq(Chunks)]
           /\ \A d \in Conns : Offer(ch, c, chunk)[d] \in {ch[d], Append(ch[d], chunk)}
<1>1. Append(ch[c], chunk) \in Seq(Chunks)
  OBVIOUS
<1> QED BY <1>1 DEF Offer, Set

\* Taking a chunk leaves the ones behind it.
LEMMA TakeChunkTails ==
    ASSUME NEW ch \in [Conns -> Seq(Chunks)], NEW c \in Conns, ch[c] # <<>>
    PROVE  /\ TakeChunk(ch, c) \in [Conns -> Seq(Chunks)]
           /\ \A d \in Conns : TakeChunk(ch, c)[d] \in {ch[d], Tail(ch[d])}
           /\ TakeChunk(ch, c)[c] = Tail(ch[c])
           /\ \A d \in Conns : d # c => TakeChunk(ch, c)[d] = ch[d]
<1>1. Tail(ch[c]) \in Seq(Chunks)
  OBVIOUS
<1> QED BY <1>1 DEF TakeChunk, Set

\* A field of one txn is written, and every other one stays as it is.
LEMMA WriteTxn ==
    ASSUME NEW f \in [Conns -> Seq(Transactions)], NEW c \in Conns, NEW k \in 1..Len(f[c]),
           NEW t \in Transactions
    PROVE  /\ [f EXCEPT ![c][k] = t] \in [Conns -> Seq(Transactions)]
           /\ \A d \in Conns : Len([f EXCEPT ![c][k] = t][d]) = Len(f[d])
           /\ \A d \in Conns : \A m \in 1..Len(f[d]) :
                [f EXCEPT ![c][k] = t][d][m] = IF d = c /\ m = k THEN t ELSE f[d][m]
<1>1. /\ [f[c] EXCEPT ![k] = t] \in Seq(Transactions)
      /\ Len([f[c] EXCEPT ![k] = t]) = Len(f[c])
      /\ \A m \in 1..Len(f[c]) : [f[c] EXCEPT ![k] = t][m] = IF m = k THEN t ELSE f[c][m]
  OBVIOUS
<1> QED BY <1>1

\* All but the last of a sequence.
LEMMA FrontOfSeq ==
    ASSUME NEW S, NEW s \in Seq(S), Len(s) - 1 \in Nat
    PROVE  /\ SubSeq(s, 1, Len(s) - 1) \in Seq(S)
           /\ Len(SubSeq(s, 1, Len(s) - 1)) = Len(s) - 1
           /\ \A i \in 1..(Len(s) - 1) : SubSeq(s, 1, Len(s) - 1)[i] = s[i]
<1> DEFINE n == Len(s) - 1
<1>1. n \in Nat /\ Len(s) = n + 1 /\ \A i \in 1..n : s[i] \in S
  OBVIOUS
<1>2. n \in Nat /\ n <= Len(s)
  OBVIOUS
<1> HIDE DEF n
<1>3. /\ SubSeq(s, 1, n) \in Seq(S) /\ Len(SubSeq(s, 1, n)) = n
      /\ \A i \in 1..n : SubSeq(s, 1, n)[i] = s[i]
  BY <1>1, <1>2
<1> QED BY <1>3 DEF n

-----------------------------------------------------------------------------
(* The copies                                                              *)

\* One or two numbers are a chunk.
LEMMA ShortChunks ==
    ASSUME NEW x \in Int, NEW y \in Int
    PROVE  /\ <<x>> \in Chunks /\ Head(<<x>>) = x /\ Len(<<x>>) = 1
           /\ <<x, y>> \in Chunks /\ Head(<<x, y>>) = x /\ Len(<<x, y>>) = 2
<1>1. <<x>> \in Seq(Int) /\ <<x, y>> \in Seq(Int)
  OBVIOUS
<1>2. Head(<<x>>) = x /\ Len(<<x>>) = 1 /\ Head(<<x, y>>) = x /\ Len(<<x, y>>) = 2
  OBVIOUS
<1> QED BY <1>1, <1>2 DEF Chunks

\* A chunk of requests is not empty.
LEMMA RequestChunksAreChunks ==
    ASSUME CopiesOK, NEW c \in Conns, NEW chunk \in RequestChunks(c)
    PROVE  chunk \in Chunks /\ sent[c] + Len(chunk) \in Nat
<1>1. sent[c] \in Nat
  BY DEF CopiesOK
<1>2. chunk \in {<<Frame>>, <<sent[c] + 1>>, <<sent[c] + 1, sent[c] + 2>>}
  BY DEF RequestChunks
<1>3. Frame \in Int /\ sent[c] + 1 \in Int /\ sent[c] + 2 \in Int
  BY <1>1 DEF Frame
<1>4. chunk \in Chunks /\ Len(chunk) \in {1, 2}
  BY <1>2, <1>3, ShortChunks
<1> QED BY <1>1, <1>4

\* Responses are numbered from 1.
LEMMA ResponseChunksAreChunks ==
    ASSUME CopiesOK, NEW c \in Conns, NEW chunk \in ResponseChunks(c) \cup {<<Interim>>}
    PROVE  chunk \in Chunks /\ Head(chunk) # NoResponse /\ answered[c] + Len(chunk) \in Nat
<1>1. answered[c] \in Nat
  BY DEF CopiesOK
<1>2. chunk \in {<<0>>, <<answered[c] + 1>>, <<answered[c] + 1, answered[c] + 2>>}
  BY DEF ResponseChunks, Interim
<1>3. 0 \in Int /\ answered[c] + 1 \in Int /\ answered[c] + 2 \in Int
  BY <1>1
<1>4. chunk \in Chunks /\ Len(chunk) \in {1, 2} /\ Head(chunk) \in {0, answered[c] + 1}
  BY <1>2, <1>3, ShortChunks
<1> QED BY <1>1, <1>4 DEF NoResponse

\* What is offered to the readPipe is a response.
LEMMA OfferKeepsResponses ==
    ASSUME CopiesOK, NEW c \in Conns, NEW chunk \in Chunks, Head(chunk) # NoResponse,
           rch' = Offer(rch, c, chunk)
    PROVE  /\ rch' \in [Conns -> Seq(Chunks)]
           /\ \A d \in Conns : \A i \in 1..Len(rch'[d]) : Head(rch'[d][i]) # NoResponse
<1> SUFFICES ASSUME NEW d \in Conns, NEW i \in 1..Len(rch'[d])
             PROVE  Head(rch'[d][i]) # NoResponse
  BY OfferAppends DEF CopiesOK
<1>1. CASE rch'[d] = rch[d]
  BY <1>1 DEF CopiesOK
<1>2. CASE rch'[d] = Append(rch[d], chunk)
  BY <1>2 DEF CopiesOK
<1> QED BY <1>1, <1>2, OfferAppends DEF CopiesOK

\* So is what is left of it when one is taken.
LEMMA TakeKeepsResponses ==
    ASSUME CopiesOK, NEW c \in Conns, rch[c] # <<>>, rch' = TakeChunk(rch, c)
    PROVE  /\ rch' \in [Conns -> Seq(Chunks)]
           /\ \A d \in Conns : \A i \in 1..Len(rch'[d]) : Head(rch'[d][i]) # NoResponse
<1> SUFFICES ASSUME NEW d \in Conns, NEW i \in 1..Len(rch'[d])
             PROVE  Head(rch'[d][i]) # NoResponse
  BY TakeChunkTails DEF CopiesOK
<1>1. CASE d # c
  BY <1>1, TakeChunkTails DEF CopiesOK
<1>2. CASE d = c
  <2>1. rch'[d] = Tail(rch[d]) /\ rch[d] \in Seq(Chunks) /\ rch[d] # <<>>
    BY <1>2, TakeChunkTails DEF CopiesOK
  <2>2. i + 1 \in 1..Len(rch[d]) /\ rch'[d][i] = rch[d][i + 1]
    BY <2>1
  <2> QED BY <2>2 DEF CopiesOK
<1> QED BY <1>1, <1>2

\* No step spoils a copy.
LEMMA CopiesStep ==
    ASSUME CopiesOK, Next
    PROVE  CopiesOK'
<1>1. ASSUME NEW c \in Conns, TeeWrite(c)  PROVE CopiesOK'
  <2>1. PICK chunk \in RequestChunks(c) :
            sent' = Set(sent, c, sent[c] + Len(chunk)) /\ wch' = Offer(wch, c, chunk)
    BY <1>1 DEF TeeWrite
  <2>2. chunk \in Chunks /\ sent[c] + Len(chunk) \in Nat
    BY RequestChunksAreChunks
  <2>3. sent' \in [Conns -> Nat]
    BY <2>1, <2>2, SetChangesOne DEF CopiesOK
  <2>4. wch' \in [Conns -> Seq(Chunks)]
    BY <2>1, <2>2, OfferAppends DEF CopiesOK
  <2> QED BY <1>1, <2>3, <2>4 DEF TeeWrite, CopiesOK
<1>2. ASSUME NEW c \in Conns, TeeRead(c)  PROVE CopiesOK'
  <2>1. CASE \E chunk \in ResponseChunks(c) :
              /\ answered[c] + Len(chunk) <= sent[c]
              /\ answered' = Set(answered, c, answered[c] + Len(chunk))
              /\ rch' = Offer(rch, c, chunk)
    <3>1. PICK chunk \in ResponseChunks(c) :
              /\ answered' = Set(answered, c, answered[c] + Len(chunk))
              /\ rch' = Offer(rch, c, chunk)
      BY <2>1
    <3>2. chunk \in Chunks /\ Head(chunk) # NoResponse /\ answered[c] + Len(chunk) \in Nat
      BY ResponseChunksAreChunks
    <3>3. answered' \in [Conns -> Nat]
      BY <3>1, <3>2, SetChangesOne DEF CopiesOK
    <3> QED BY <1>2, <3>1, <3>2, <3>3, OfferKeepsResponses DEF TeeRead, CopiesOK
  <2>2. CASE rch' = Offer(rch, c, <<Interim>>) /\ UNCHANGED answered
    <3>1. <<Interim>> \in Chunks /\ Head(<<Interim>>) # NoResponse
      BY ResponseChunksAreChunks
    <3> QED BY <1>2, <2>2, <3>1, OfferKeepsResponses DEF TeeRead, CopiesOK
  <2> QED BY <1>2, <2>1, <2>2 DEF TeeRead
<1>3. ASSUME NEW c \in Conns, ReadRequest(c) \/ DrainRequests(c)  PROVE CopiesOK'
  <2>1. /\ wch[c] # <<>> /\ wch' = TakeChunk(wch, c)
        /\ UNCHANGED <<sent, answered, rch>>
    BY <1>3 DEF ReadRequest, DrainRequests, traffic
  <2> QED BY <2>1, TakeChunkTails DEF CopiesOK
<1>4. ASSUME NEW c \in Conns, ReadResponse(c) \/ DrainResponses(c)  PROVE CopiesOK'
  <2>1. /\ rch[c] # <<>> /\ rch' = TakeChunk(rch, c)
        /\ UNCHANGED <<sent, answered, wch>>
    BY <1>4 DEF ReadResponse, DrainResponses, traffic
  <2> QED BY <2>1, TakeKeepsResponses DEF CopiesOK
<1>5. CASE UNCHANGED <<sent, answered, wch, rch>>
  BY <1>5 DEF CopiesOK
<1>6. ASSUME NEW c \in Conns,
             \/ Join(c) \/ VisitorSends(c) \/ TeeWriteFails(c) \/ VisitorEnds(c)
             \/ TeeReadEnds(c) \/ Delivers(c)
      PROVE  CopiesOK'
  BY <1>5, <1>6 DEF Join, VisitorSends, TeeWriteFails, VisitorEnds, TeeReadEnds, Delivers, tee
<1>7. ASSUME NEW c \in Conns,
             \/ RequestsEnd(c) \/ HandOver(c) \/ TellRequest(c) \/ ResponseMissing(c)
             \/ TellResponse(c) \/ ResponsesEnd(c) \/ DrainEnds(c)
      PROVE  CopiesOK'
  BY <1>5, <1>7 DEF RequestsEnd, HandOver, TellRequest, ResponseMissing, TellResponse,
                    ResponsesEnd, DrainEnds, traffic, tee
<1>8. ASSUME NEW t \in idToTxn, Replay(t)  PROVE CopiesOK'
  BY <1>5, <1>8 DEF Replay
<1>9. ASSUME UpdateHttp  PROVE CopiesOK'
  BY <1>5, <1>9 DEF UpdateHttp, UpdateNew, AddToRing, UpdateKnown, traffic, tee
<1> QED BY <1>1, <1>2, <1>3, <1>4, <1>6, <1>7, <1>8, <1>9 DEF Next, Readers


-----------------------------------------------------------------------------
(* What is written into a txn, and what is told of it                      *)

\* The value of a txn, spelt out.
LEMMA TxnIsRecord ==
    ASSUME ReadersOK, NEW c \in Conns, NEW k \in 1..Len(txns[c])
    PROVE  txns[c][k] \in Transactions /\ TxnOf(<<c, k>>) = txns[c][k]
BY DEF ReadersOK, TxnOf

Responds(c, k, x) == txns' = [txns EXCEPT ![c][k].resp = x]

\* A response is written: only the resp of that txn differs.
LEMMA RespWritten ==
    ASSUME ReadersOK, NEW c \in Conns, NEW k \in 1..Len(txns[c]), NEW x \in Int,
           Responds(c, k, x)
    PROVE  /\ txns' \in [Conns -> Seq(Transactions)]
           /\ \A d \in Conns : Len(txns'[d]) = Len(txns[d])
           /\ \A d \in Conns : \A m \in 1..Len(txns[d]) :
                /\ txns'[d][m].req = txns[d][m].req /\ txns'[d][m].shown = txns[d][m].shown
                /\ txns'[d][m].resp = IF d = c /\ m = k THEN x ELSE txns[d][m].resp
<1> DEFINE t == [txns[c][k] EXCEPT !.resp = x]
<1>1. txns[c][k] \in Transactions
  BY TxnIsRecord
<1>2. t \in Transactions /\ t.resp = x /\ t.shown = txns[c][k].shown /\ t.req = txns[c][k].req
  BY <1>1 DEF Transactions
<1>3. txns' = [txns EXCEPT ![c][k] = t]
  BY DEF Responds
<1>4. txns \in [Conns -> Seq(Transactions)]
  BY DEF ReadersOK
<1> HIDE DEF t
<1>5. /\ txns' \in [Conns -> Seq(Transactions)]
      /\ \A d \in Conns : Len(txns'[d]) = Len(txns[d])
      /\ \A d \in Conns : \A m \in 1..Len(txns[d]) :
            txns'[d][m] = IF d = c /\ m = k THEN t ELSE txns[d][m]
  BY <1>2, <1>3, <1>4, WriteTxn
<1> QED BY <1>2, <1>5

\* The view marks a txn: only the shown of that txn differs.
LEMMA ShownWritten ==
    ASSUME ReadersOK, NEW c \in Conns, NEW k \in 1..Len(txns[c]),
           NEW w \in {"request", "response"}, Shows(<<c, k>>, w)
    PROVE  /\ txns' \in [Conns -> Seq(Transactions)]
           /\ \A d \in Conns : Len(txns'[d]) = Len(txns[d])
           /\ \A d \in Conns : \A m \in 1..Len(txns[d]) :
                /\ txns'[d][m].req = txns[d][m].req /\ txns'[d][m].resp = txns[d][m].resp
                /\ txns'[d][m].shown = IF d = c /\ m = k THEN w ELSE txns[d][m].shown
<1> DEFINE t == [txns[c][k] EXCEPT !.shown = w]
<1>1. txns[c][k] \in Transactions
  BY TxnIsRecord
<1>2. t \in Transactions /\ t.shown = w /\ t.resp = txns[c][k].resp /\ t.req = txns[c][k].req
  BY <1>1 DEF Transactions
<1>3. txns' = [txns EXCEPT ![c][k] = t]
  BY DEF Shows
<1>4. txns \in [Conns -> Seq(Transactions)]
  BY DEF ReadersOK
<1> HIDE DEF t
<1>5. /\ txns' \in [Conns -> Seq(Transactions)]
      /\ \A d \in Conns : Len(txns'[d]) = Len(txns[d])
      /\ \A d \in Conns : \A m \in 1..Len(txns[d]) :
            txns'[d][m] = IF d = c /\ m = k THEN t ELSE txns[d][m]
  BY <1>2, <1>3, <1>4, WriteTxn
<1> QED BY <1>2, <1>5

\* An update goes to the view's channel, or is dropped.
LEMMA PublishAppends ==
    ASSUME NEW c, NEW k, Publish(c, k)
    PROVE  queue' = queue \/ queue' = Append(queue, <<c, k>>)
BY DEF Publish

\* An update of a txn that has a response, or that nobody has heard of, does no harm.
LEMMA KnownWhenTold ==
    ASSUME ReadersOK, KnownTxnsHaveResponses,
           NEW c \in Conns, NEW k \in 1..Len(txns[c]), Publish(c, k), UNCHANGED txns,
           TxnOf(<<c, k>>).resp = NoResponse =>
               /\ TxnOf(<<c, k>>).shown = "no"
               /\ \A i \in 1..Len(queue) : queue[i] # <<c, k>>
    PROVE  /\ queue' \in Seq(Ids)
           /\ \A i \in 1..Len(queue') : queue'[i][2] \in 1..Len(txns'[queue'[i][1]])
           /\ \A i \in 1..Len(queue') : queue'[i] = <<c, k>> \/ (i \in 1..Len(queue) /\ queue'[i] = queue[i])
           /\ KnownTxnsHaveResponses'
<1> DEFINE t == <<c, k>>
<1>1. queue \in Seq(Ids) /\ t \in Ids
  BY DEF ReadersOK, Ids
<1>2. CASE queue' = queue
  BY <1>1, <1>2 DEF KnownTxnsHaveResponses, ReadersOK, TxnOf
<1>3. CASE queue' = Append(queue, t)
  <2>1. /\ queue' \in Seq(Ids) /\ Len(queue') = Len(queue) + 1
        /\ queue'[Len(queue) + 1] = t
        /\ \A i \in 1..Len(queue) : queue'[i] = queue[i]
    BY <1>1, <1>3
  <2>2. t[1] = c /\ t[2] = k
    OBVIOUS
  <2>0. /\ t[2] \in 1..Len(txns[t[1]])
        /\ TxnOf(t).resp = NoResponse =>
              TxnOf(t).shown = "no" /\ \A i \in 1..Len(queue) : queue[i] # t
    OBVIOUS
  <2> HIDE DEF t
  <2>3. \A i \in 1..Len(queue') : queue'[i][2] \in 1..Len(txns'[queue'[i][1]])
    <3> SUFFICES ASSUME NEW i \in 1..Len(queue')
                 PROVE  queue'[i][2] \in 1..Len(txns[queue'[i][1]])
      OBVIOUS
    <3>1. CASE i \in 1..Len(queue)
      BY <2>1, <3>1 DEF ReadersOK
    <3>2. CASE i = Len(queue) + 1
      BY <2>0, <2>1, <3>2
    <3> QED BY <1>1, <2>1, <3>1, <3>2
  <2>4. ASSUME NEW i \in 1..Len(queue'),
               \/ txns'[queue'[i][1]][queue'[i][2]].shown # "no"
               \/ \E j \in 1..(i - 1) : queue'[j] = queue'[i]
        PROVE  txns'[queue'[i][1]][queue'[i][2]].resp # NoResponse
    <3>1. CASE i \in 1..Len(queue)
      <4>1. queue'[i] = queue[i] /\ \A j \in 1..(i - 1) : queue'[j] = queue[j]
        BY <1>1, <2>1, <3>1
      <4>2. TxnOf(queue[i]).shown # "no" \/ \E j \in 1..(i - 1) : queue[j] = queue[i]
        BY <2>4, <4>1 DEF TxnOf
      <4> QED BY <3>1, <4>1, <4>2 DEF KnownTxnsHaveResponses, TxnOf
    <3>2. CASE i = Len(queue) + 1
      <4>1. queue'[i] = t /\ \A j \in 1..(i - 1) : queue'[j] = queue[j] /\ j \in 1..Len(queue)
        BY <1>1, <2>1, <3>2
      <4>2. TxnOf(t).shown # "no" \/ \E j \in 1..Len(queue) : queue[j] = t
        BY <2>2, <2>4, <4>1 DEF TxnOf
      <4>3. TxnOf(t).resp # NoResponse
        BY <2>0, <4>2
      <4> QED BY <4>1, <4>3 DEF TxnOf
    <3> QED BY <1>1, <2>1, <3>1, <3>2
  <2>5. KnownTxnsHaveResponses'
    BY <2>4 DEF KnownTxnsHaveResponses, TxnOf
  <2>6. \A i \in 1..Len(queue') : queue'[i] = t \/ (i \in 1..Len(queue) /\ queue'[i] = queue[i])
    BY <1>1, <2>1
  <2> QED BY <2>1, <2>3, <2>5, <2>6 DEF t
<1> QED BY <1>2, <1>3, PublishAppends

-----------------------------------------------------------------------------
(* The readers and the view, one kind of step after the other              *)

Settled == ReadersOK /\ UntoldIsNew /\ ToldIsAnswered /\ KnownTxnsHaveResponses

\* Steps of others change nothing.
LEMMA StandStill ==
    ASSUME Settled, UNCHANGED <<readers, queue>>
    PROVE  Settled'
<1>1. UNCHANGED <<rq, rs, txns, at, queue>>
  BY DEF readers
<1>2. ReadersOK'
  BY <1>1 DEF Settled, ReadersOK
<1>3. UntoldIsNew'
  BY <1>1 DEF Settled, UntoldIsNew, TxnOf
<1>4. ToldIsAnswered'
  BY <1>1 DEF Settled, ToldIsAnswered, TxnOf
<1>5. KnownTxnsHaveResponses'
  BY <1>1 DEF Settled, KnownTxnsHaveResponses, TxnOf
<1> QED BY <1>2, <1>3, <1>4, <1>5 DEF Settled

\* Steps that only move the readers of one connection.
LEMMA ReadersMove ==
    ASSUME Settled, NEW c \in Conns,
           NEW q \in {"off", "read", "hand", "tell", "done"},
           NEW r \in {"off", "range", "read", "tell", "drain", "done"}, NEW k \in Nat,
           rq' = Set(rq, c, q), rs' = Set(rs, c, r), at' = Set(at, c, k),
           UNCHANGED <<txns, queue>>,
           q \in {"hand", "tell"} => rq[c] \in {"hand", "tell"},
           r \in {"read", "tell"} => k \in 1..Len(txns[c]),
           r = "tell" => TxnOf(<<c, k>>).resp # NoResponse
    PROVE  Settled'
<1>1. /\ rq' \in [Conns -> {"off", "read", "hand", "tell", "done"}]
      /\ rs' \in [Conns -> {"off", "range", "read", "tell", "drain", "done"}]
      /\ at' \in [Conns -> Nat]
      /\ \A d \in Conns : rq'[d] = IF d = c THEN q ELSE rq[d]
      /\ \A d \in Conns : rs'[d] = IF d = c THEN r ELSE rs[d]
      /\ \A d \in Conns : at'[d] = IF d = c THEN k ELSE at[d]
  BY DEF Settled, ReadersOK, Set
<1>2. ReadersOK'
  BY <1>1 DEF Settled, ReadersOK
<1>3. UntoldIsNew'
  BY <1>1 DEF Settled, UntoldIsNew, TxnOf
<1>4. ToldIsAnswered'
  BY <1>1 DEF Settled, ToldIsAnswered, TxnOf
<1>5. KnownTxnsHaveResponses'
  BY DEF Settled, KnownTxnsHaveResponses, TxnOf
<1> QED BY <1>2, <1>3, <1>4, <1>5 DEF Settled

\* Every step of the goroutines that neither writes a txn nor tells one.
LEMMA QuietSteps ==
    ASSUME Settled, NEW c \in Conns,
           \/ Wraps(c) /\ UNCHANGED <<txns, at, queue>>
           \/ RequestsEnd(c) \/ HandOver(c) \/ ResponseMissing(c) \/ ResponsesEnd(c) \/ DrainEnds(c)
    PROVE  Settled'
<1>1. /\ rq[c] \in {"off", "read", "hand", "tell", "done"} /\ rq = Set(rq, c, rq[c])
      /\ rs[c] \in {"off", "range", "read", "tell", "drain", "done"} /\ rs = Set(rs, c, rs[c])
      /\ at[c] \in Nat /\ at = Set(at, c, at[c])
  BY DEF Settled, ReadersOK, Set
<1>2. /\ rs[c] \in {"read", "tell"} => at[c] \in 1..Len(txns[c])
      /\ rs[c] = "tell" => TxnOf(<<c, at[c]>>).resp # NoResponse
  BY DEF Settled, ReadersOK, ToldIsAnswered
<1>3. CASE Wraps(c) /\ UNCHANGED <<txns, at, queue>>
  <2>1. rq' = Set(rq, c, "read") /\ rs' = Set(rs, c, "range") /\ at' = Set(at, c, at[c])
    BY <1>1, <1>3 DEF Wraps
  <2> QED BY <1>1, <1>3, <2>1, ReadersMove
<1>4. CASE RequestsEnd(c)
  <2>1. /\ rq' = Set(rq, c, "done") /\ rs' = Set(rs, c, rs[c]) /\ at' = Set(at, c, at[c])
        /\ UNCHANGED <<txns, queue>>
    BY <1>1, <1>4 DEF RequestsEnd
  <2> QED BY <1>1, <1>2, <2>1, ReadersMove
<1>5. CASE HandOver(c)
  <2>1. /\ rq' = Set(rq, c, "tell") /\ rs' = Set(rs, c, "read") /\ at' = Set(at, c, Len(txns[c]))
        /\ UNCHANGED <<txns, queue>> /\ rq[c] = "hand"
    BY <1>5 DEF HandOver
  <2>2. Len(txns[c]) \in Nat /\ Len(txns[c]) \in 1..Len(txns[c])
    BY <2>1 DEF Settled, ReadersOK
  <2> QED BY <2>1, <2>2, ReadersMove
<1>6. CASE ResponseMissing(c) \/ ResponsesEnd(c) \/ DrainEnds(c)
  <2>1. /\ rq' = Set(rq, c, rq[c]) /\ rs' = Set(rs, c, "done") /\ at' = Set(at, c, at[c])
        /\ UNCHANGED <<txns, queue>>
    BY <1>1, <1>6 DEF ResponseMissing, ResponsesEnd, DrainEnds
  <2> QED BY <1>1, <2>1, ReadersMove
<1> QED BY <1>3, <1>4, <1>5, <1>6

\* readRequests makes a txn: nobody has heard of it.
LEMMA ReadRequestStep ==
    ASSUME CopiesOK, Settled, NEW c \in Conns, ReadRequest(c)
    PROVE  Settled'
<1>1. CASE rq' = Set(rq, c, "done") /\ UNCHANGED txns
  <2>1. rs' = Set(rs, c, rs[c]) /\ at' = Set(at, c, at[c]) /\ UNCHANGED <<txns, queue>>
    BY <1>1 DEF ReadRequest, Settled, ReadersOK, Set
  <2>2. /\ rs[c] \in {"off", "range", "read", "tell", "drain", "done"} /\ at[c] \in Nat
        /\ rs[c] \in {"read", "tell"} => at[c] \in 1..Len(txns[c])
        /\ rs[c] = "tell" => TxnOf(<<c, at[c]>>).resp # NoResponse
    BY DEF Settled, ReadersOK, ToldIsAnswered
  <2> QED BY <1>1, <2>1, <2>2, ReadersMove
<1>2. CASE /\ txns' = Set(txns, c, Append(txns[c], Txn(Head(Head(wch[c])))))
           /\ rq' = Set(rq, c, "hand")
  <2> DEFINE t == Txn(Head(Head(wch[c])))
             n == Len(txns[c]) + 1
  <2>1. /\ UNCHANGED <<rs, at, queue>> /\ wch[c] \in Seq(Chunks) /\ wch[c] # <<>>
    BY DEF ReadRequest, CopiesOK
  <2>2. Head(Head(wch[c])) \in Int
    <3>1. Head(wch[c]) \in Chunks
      BY <2>1
    <3> QED BY <3>1 DEF Chunks
  <2>3. t \in Transactions /\ t.resp = NoResponse /\ t.shown = "no"
    BY <2>2 DEF Txn, Transactions, NoResponse
  <2> HIDE DEF t
  <2>4. /\ Append(txns[c], t) \in Seq(Transactions) /\ Len(Append(txns[c], t)) = n /\ n \in Nat \ {0}
        /\ Append(txns[c], t)[n] = t
        /\ \A m \in 1..Len(txns[c]) : Append(txns[c], t)[m] = txns[c][m]
    BY <2>3 DEF Settled, ReadersOK
  <2>5. /\ txns' \in [Conns -> Seq(Transactions)]
        /\ \A d \in Conns : Len(txns'[d]) = IF d = c THEN n ELSE Len(txns[d])
        /\ \A d \in Conns : \A m \in 1..Len(txns[d]) : txns'[d][m] = txns[d][m]
        /\ txns'[c][n] = t
    BY <1>2, <2>4 DEF Settled, ReadersOK, Set, t
  <2>6. /\ rq' \in [Conns -> {"off", "read", "hand", "tell", "done"}]
        /\ \A d \in Conns : rq'[d] = IF d = c THEN "hand" ELSE rq[d]
    BY <1>2 DEF Settled, ReadersOK, Set
  <2> HIDE DEF n
  <2>7. \A d \in Conns : Len(txns[d]) \in Nat /\ 1..Len(txns[d]) \subseteq 1..Len(txns'[d])
    BY <2>4, <2>5 DEF Settled, ReadersOK, n
  <2>8. ReadersOK'
    <3>1. /\ ReadersOK /\ at' = at /\ rs' = rs /\ queue' = queue
      BY <1>2 DEF Settled, ReadRequest
    <3>2. \A i \in 1..Len(queue') : queue'[i][2] \in 1..Len(txns'[queue'[i][1]])
      <4>1. \A i \in 1..Len(queue) : queue[i] \in Ids /\ queue[i][1] \in Conns
        BY <3>1 DEF ReadersOK, Ids
      <4> QED BY <2>7, <3>1, <4>1 DEF ReadersOK
    <3>3. \A d \in Conns : rq'[d] \in {"hand", "tell"} => Len(txns'[d]) > 0
      BY <2>4, <2>5, <2>6, <3>1 DEF ReadersOK
    <3>4. \A d \in Conns : rs'[d] \in {"read", "tell"} => at'[d] \in 1..Len(txns'[d])
      BY <2>7, <3>1 DEF ReadersOK
    <3> QED BY <2>5, <2>6, <3>1, <3>2, <3>3, <3>4 DEF ReadersOK
  <2>9. UntoldIsNew'
    <3> SUFFICES ASSUME NEW d \in Conns, rq'[d] \in {"hand", "tell"},
                        txns'[d][Len(txns'[d])].resp = NoResponse
                 PROVE  /\ txns'[d][Len(txns'[d])].shown = "no"
                        /\ \A i \in 1..Len(queue) : queue[i] # <<d, Len(txns'[d])>>
      BY <2>1 DEF UntoldIsNew, TxnOf
    <3>1. CASE d # c
      <4>1. rq[d] \in {"hand", "tell"} /\ Len(txns[d]) \in 1..Len(txns[d]) /\ Len(txns'[d]) = Len(txns[d])
        BY <3>1, <2>5, <2>6 DEF Settled, ReadersOK
      <4> QED BY <4>1, <2>5 DEF Settled, UntoldIsNew, TxnOf
    <3>2. CASE d = c
      <4>1. Len(txns'[d]) = n /\ \A i \in 1..Len(queue) : queue[i][2] \in 1..Len(txns[queue[i][1]])
        BY <3>2, <2>5 DEF Settled, ReadersOK
      <4>2. \A i \in 1..Len(queue) : queue[i] # <<c, n>>
        BY <4>1, <2>7 DEF n
      <4> QED BY <3>2, <4>1, <4>2, <2>3, <2>5
    <3> QED BY <3>1, <3>2
  <2>10. ToldIsAnswered'
    BY <2>1, <2>5 DEF Settled, ReadersOK, ToldIsAnswered, TxnOf
  <2>11. KnownTxnsHaveResponses'
    <3>1. \A i \in 1..Len(queue) : TxnOf(queue[i])' = TxnOf(queue[i])
      <4> SUFFICES ASSUME NEW i \in 1..Len(queue)
                   PROVE  txns'[queue[i][1]][queue[i][2]] = txns[queue[i][1]][queue[i][2]]
        BY <2>1 DEF TxnOf
      <4>1. queue[i] \in Ids /\ queue[i][2] \in 1..Len(txns[queue[i][1]])
        BY DEF Settled, ReadersOK
      <4> QED BY <4>1, <2>5 DEF Ids
    <3> QED BY <3>1, <2>1 DEF Settled, KnownTxnsHaveResponses
  <2> QED BY <2>8, <2>9, <2>10, <2>11 DEF Settled
<1> QED BY <1>1, <1>2 DEF ReadRequest

\* readRequests and readResponses tell the view what they have.
LEMMA TellStep ==
    ASSUME Settled, NEW c \in Conns, TellRequest(c) \/ TellResponse(c)
    PROVE  Settled'
<1>1. CASE TellRequest(c)
  <2> DEFINE k == Len(txns[c])
  <2>1. /\ rq[c] = "tell" /\ rq' = Set(rq, c, "read") /\ Publish(c, k)
        /\ UNCHANGED <<rs, txns, at>>
    BY <1>1 DEF TellRequest
  <2>2. k \in 1..Len(txns[c])
    BY <2>1 DEF Settled, ReadersOK
  <2>3. TxnOf(<<c, k>>).resp = NoResponse =>
            /\ TxnOf(<<c, k>>).shown = "no"
            /\ \A i \in 1..Len(queue) : queue[i] # <<c, k>>
    BY <2>1 DEF Settled, UntoldIsNew
  <2> HIDE DEF k
  <2>4. /\ queue' \in Seq(Ids)
        /\ \A i \in 1..Len(queue') : queue'[i][2] \in 1..Len(txns'[queue'[i][1]])
        /\ \A i \in 1..Len(queue') : queue'[i] = <<c, k>> \/ (i \in 1..Len(queue) /\ queue'[i] = queue[i])
        /\ KnownTxnsHaveResponses'
    BY <2>1, <2>2, <2>3, KnownWhenTold DEF Settled
  <2>5. /\ rq' \in [Conns -> {"off", "read", "hand", "tell", "done"}]
        /\ \A d \in Conns : rq'[d] = IF d = c THEN "read" ELSE rq[d]
    BY <2>1 DEF Settled, ReadersOK, Set
  <2>6. ReadersOK'
    BY <2>1, <2>4, <2>5 DEF Settled, ReadersOK
  <2>7. UntoldIsNew'
    <3> SUFFICES ASSUME NEW d \in Conns, rq'[d] \in {"hand", "tell"},
                        TxnOf(<<d, Len(txns[d])>>).resp = NoResponse
                 PROVE  /\ TxnOf(<<d, Len(txns[d])>>).shown = "no"
                        /\ \A i \in 1..Len(queue') : queue'[i] # <<d, Len(txns[d])>>
      BY <2>1 DEF UntoldIsNew, TxnOf
    <3>1. d # c /\ rq[d] \in {"hand", "tell"}
      BY <2>5
    <3>2. /\ TxnOf(<<d, Len(txns[d])>>).shown = "no"
          /\ \A i \in 1..Len(queue) : queue[i] # <<d, Len(txns[d])>>
      BY <3>1 DEF Settled, UntoldIsNew
    <3> QED BY <2>4, <3>1, <3>2
  <2>8. ToldIsAnswered'
    BY <2>1 DEF Settled, ToldIsAnswered, TxnOf
  <2> QED BY <2>4, <2>6, <2>7, <2>8 DEF Settled
<1>2. CASE TellResponse(c)
  <2> DEFINE k == at[c]
             r == IF txns[c][at[c]].req \in script.upgrades THEN "drain" ELSE "range"
  <2>1. /\ rs[c] = "tell" /\ rs' = Set(rs, c, r) /\ Publish(c, k)
        /\ UNCHANGED <<rq, txns, at>>
    BY <1>2 DEF TellResponse
  <2>2. k \in 1..Len(txns[c]) /\ TxnOf(<<c, k>>).resp # NoResponse
    BY <2>1 DEF Settled, ReadersOK, ToldIsAnswered
  <2>3. r \in {"drain", "range"}
    OBVIOUS
  <2> HIDE DEF k, r
  <2>4. /\ queue' \in Seq(Ids)
        /\ \A i \in 1..Len(queue') : queue'[i][2] \in 1..Len(txns'[queue'[i][1]])
        /\ \A i \in 1..Len(queue') : queue'[i] = <<c, k>> \/ (i \in 1..Len(queue) /\ queue'[i] = queue[i])
        /\ KnownTxnsHaveResponses'
    BY <2>1, <2>2, KnownWhenTold DEF Settled
  <2>5. /\ rs' \in [Conns -> {"off", "range", "read", "tell", "drain", "done"}]
        /\ \A d \in Conns : rs'[d] = IF d = c THEN r ELSE rs[d]
    BY <2>1, <2>3 DEF Settled, ReadersOK, Set
  <2>6. ReadersOK'
    BY <2>1, <2>3, <2>4, <2>5 DEF Settled, ReadersOK
  <2>7. UntoldIsNew'
    BY <2>1, <2>2, <2>4 DEF Settled, UntoldIsNew, TxnOf
  <2>8. ToldIsAnswered'
    BY <2>1, <2>3, <2>5 DEF Settled, ToldIsAnswered, TxnOf
  <2> QED BY <2>4, <2>6, <2>7, <2>8 DEF Settled
<1> QED BY <1>1, <1>2

\* readResponses has a response, or gives up.
LEMMA ReadResponseStep ==
    ASSUME CopiesOK, Settled, NEW c \in Conns, ReadResponse(c)
    PROVE  Settled'
<1> DEFINE x == Head(Head(rch[c]))
           k == at[c]
<1>1. /\ UNCHANGED <<rq, at, queue>> /\ rs[c] = "read" /\ k \in 1..Len(txns[c]) /\ k \in Nat
      /\ rch[c] \in Seq(Chunks) /\ rch[c] # <<>>
  BY DEF ReadResponse, CopiesOK, Settled, ReadersOK
<1>2. CASE rs' = Set(rs, c, "done") /\ UNCHANGED txns
  <2>1. rq' = Set(rq, c, rq[c]) /\ at' = Set(at, c, at[c])
        /\ rq[c] \in {"off", "read", "hand", "tell", "done"}
    BY <1>1 DEF Settled, ReadersOK, Set
  <2> QED BY <1>1, <1>2, <2>1, ReadersMove
<1>3. CASE rs' = Set(rs, c, "tell") /\ Responds(c, k, x)
  <2>1. x \in Int /\ x # NoResponse
    <3>1. Head(rch[c]) \in Chunks /\ 1 \in 1..Len(rch[c]) /\ Head(rch[c]) = rch[c][1]
      BY <1>1
    <3> QED BY <3>1 DEF Chunks, CopiesOK
  <2> HIDE DEF x, k
  <2>2. /\ txns' \in [Conns -> Seq(Transactions)]
        /\ \A d \in Conns : Len(txns'[d]) = Len(txns[d])
        /\ \A d \in Conns : \A m \in 1..Len(txns[d]) :
              /\ txns'[d][m].shown = txns[d][m].shown
              /\ txns'[d][m].resp = IF d = c /\ m = k THEN x ELSE txns[d][m].resp
    BY <1>1, <1>3, <2>1, RespWritten DEF Settled
  <2>3. /\ rs' \in [Conns -> {"off", "range", "read", "tell", "drain", "done"}]
        /\ \A d \in Conns : rs'[d] = IF d = c THEN "tell" ELSE rs[d]
    BY <1>3 DEF Settled, ReadersOK, Set
  <2>4. ReadersOK'
    <3>1. /\ ReadersOK /\ rq' = rq /\ at' = at /\ queue' = queue /\ at[c] \in 1..Len(txns[c])
      BY <1>1 DEF Settled, ReadersOK
    <3>2. \A i \in 1..Len(queue') : queue'[i][2] \in 1..Len(txns'[queue'[i][1]])
      <4>1. \A i \in 1..Len(queue) : queue[i] \in Ids /\ queue[i][1] \in Conns
        BY <3>1 DEF ReadersOK, Ids
      <4> QED BY <2>2, <3>1, <4>1 DEF ReadersOK
    <3>3. /\ \A d \in Conns : rq'[d] \in {"hand", "tell"} => Len(txns'[d]) > 0
          /\ \A d \in Conns : rs'[d] \in {"read", "tell"} => at'[d] \in 1..Len(txns'[d])
      BY <2>2, <2>3, <3>1 DEF ReadersOK
    <3> QED BY <2>2, <2>3, <3>1, <3>2, <3>3 DEF ReadersOK
  <2>5. UntoldIsNew'
    <3> SUFFICES ASSUME NEW d \in Conns, rq[d] \in {"hand", "tell"},
                        txns'[d][Len(txns[d])].resp = NoResponse
                 PROVE  /\ txns'[d][Len(txns[d])].shown = "no"
                        /\ \A i \in 1..Len(queue) : queue[i] # <<d, Len(txns[d])>>
      BY <1>1, <2>2 DEF UntoldIsNew, TxnOf
    <3>1. Len(txns[d]) \in 1..Len(txns[d])
      BY DEF Settled, ReadersOK
    <3>2. txns[d][Len(txns[d])].resp = NoResponse
      BY <2>1, <2>2, <3>1
    <3> QED BY <2>2, <3>1, <3>2 DEF Settled, UntoldIsNew, TxnOf
  <2>6. ToldIsAnswered'
    <3> SUFFICES ASSUME NEW d \in Conns, rs'[d] = "tell"
                 PROVE  txns'[d][at[d]].resp # NoResponse
      BY <1>1 DEF ToldIsAnswered, TxnOf
    <3>1. CASE d = c
      BY <1>1, <2>1, <2>2, <3>1 DEF k
    <3>2. CASE d # c
      <4>1. rs[d] = "tell" /\ at[d] \in 1..Len(txns[d])
        BY <2>3, <3>2 DEF Settled, ReadersOK
      <4> QED BY <2>2, <3>2, <4>1 DEF Settled, ToldIsAnswered, TxnOf
    <3> QED BY <3>1, <3>2
  <2>7. KnownTxnsHaveResponses'
    <3>1. ASSUME NEW i \in 1..Len(queue)
          PROVE  /\ txns'[queue[i][1]][queue[i][2]].shown = txns[queue[i][1]][queue[i][2]].shown
                 /\ \/ txns'[queue[i][1]][queue[i][2]].resp = x
                    \/ txns'[queue[i][1]][queue[i][2]].resp = txns[queue[i][1]][queue[i][2]].resp
      <4>1. queue[i] \in Ids /\ queue[i][2] \in 1..Len(txns[queue[i][1]])
        BY DEF Settled, ReadersOK
      <4> QED BY <4>1, <2>2 DEF Ids
    <3> QED BY <1>1, <2>1, <3>1 DEF Settled, KnownTxnsHaveResponses, TxnOf
  <2> QED BY <2>4, <2>5, <2>6, <2>7 DEF Settled
<1> QED BY <1>2, <1>3 DEF ReadResponse, Responds

\* The view takes an update: what it shows from now on has a response when it is told again.
LEMMA UpdateStep ==
    ASSUME Settled, UpdateNew \/ UpdateKnown
    PROVE  Settled'
<1> DEFINE t == Head(queue)
<1>1. /\ UNCHANGED <<rq, rs, at>> /\ queue \in Seq(Ids) /\ queue # <<>> /\ queue' = Tail(queue)
  BY DEF UpdateNew, UpdateKnown, Settled, ReadersOK
<1>2. /\ t \in Ids /\ t = queue[1] /\ 1 \in 1..Len(queue) /\ t = <<t[1], t[2]>>
      /\ t[2] \in 1..Len(txns[t[1]])
      /\ queue' \in Seq(Ids) /\ Len(queue') = Len(queue) - 1
      /\ \A i \in 1..Len(queue') : i + 1 \in 1..Len(queue) /\ queue'[i] = queue[i + 1]
  BY <1>1 DEF Settled, ReadersOK, Ids
<1>3. UNCHANGED txns \/ \E w \in {"request", "response"} : Shows(<<t[1], t[2]>>, w)
  BY <1>2 DEF UpdateNew, UpdateKnown, Shows
<1> HIDE DEF t
<1>4. /\ txns' \in [Conns -> Seq(Transactions)]
      /\ \A d \in Conns : Len(txns'[d]) = Len(txns[d])
      /\ \A d \in Conns : \A m \in 1..Len(txns[d]) :
            /\ txns'[d][m].resp = txns[d][m].resp
            /\ (d # t[1] \/ m # t[2]) => txns'[d][m].shown = txns[d][m].shown
  <2>1. CASE UNCHANGED txns
    BY <2>1 DEF Settled, ReadersOK
  <2>2. ASSUME NEW w \in {"request", "response"}, Shows(<<t[1], t[2]>>, w)
        PROVE  <1>4!1 /\ <1>4!2 /\ <1>4!3
    BY <1>2, <2>2, ShownWritten DEF Settled, Ids
  <2> QED BY <1>3, <2>1, <2>2
<1>5. ReadersOK'
  <2>1. \A i \in 1..Len(queue') : queue'[i][2] \in 1..Len(txns'[queue'[i][1]])
    <3> SUFFICES ASSUME NEW i \in 1..Len(queue')
                 PROVE  queue'[i][2] \in 1..Len(txns'[queue'[i][1]])
      OBVIOUS
    <3>1. queue'[i] = queue[i + 1] /\ queue[i + 1] \in Ids /\ i + 1 \in 1..Len(queue)
      BY <1>1, <1>2
    <3> QED BY <3>1, <1>4 DEF Settled, ReadersOK, Ids
  <2> QED BY <1>1, <1>2, <1>4, <2>1 DEF Settled, ReadersOK
<1>6. UntoldIsNew'
  <2> SUFFICES ASSUME NEW d \in Conns, rq[d] \in {"hand", "tell"},
                      txns'[d][Len(txns[d])].resp = NoResponse
               PROVE  /\ txns'[d][Len(txns[d])].shown = "no"
                      /\ \A i \in 1..Len(queue') : queue'[i] # <<d, Len(txns[d])>>
    BY <1>1, <1>4 DEF UntoldIsNew, TxnOf
  <2>1. Len(txns[d]) \in 1..Len(txns[d])
    BY DEF Settled, ReadersOK
  <2>2. /\ txns[d][Len(txns[d])].shown = "no"
        /\ \A i \in 1..Len(queue) : queue[i] # <<d, Len(txns[d])>>
    BY <1>4, <2>1 DEF Settled, UntoldIsNew, TxnOf
  <2>3. d # t[1] \/ Len(txns[d]) # t[2]
    BY <1>2, <2>2
  <2> QED BY <1>2, <1>4, <2>1, <2>2, <2>3
<1>7. ToldIsAnswered'
  BY <1>1, <1>4 DEF Settled, ReadersOK, ToldIsAnswered, TxnOf
<1>8. KnownTxnsHaveResponses'
  <2> SUFFICES ASSUME NEW i \in 1..Len(queue'),
                      \/ txns'[queue'[i][1]][queue'[i][2]].shown # "no"
                      \/ \E j \in 1..(i - 1) : queue'[j] = queue'[i]
               PROVE  txns'[queue'[i][1]][queue'[i][2]].resp # NoResponse
    BY DEF KnownTxnsHaveResponses, TxnOf
  <2> DEFINE u == queue[i + 1]
  <2>1. /\ i + 1 \in 1..Len(queue) /\ queue'[i] = u /\ u \in Ids /\ u = <<u[1], u[2]>>
        /\ u[2] \in 1..Len(txns[u[1]]) /\ u[1] \in Conns
    <3>1. queue \in Seq(Ids) /\ \A j \in 1..Len(queue) : queue[j][2] \in 1..Len(txns[queue[j][1]])
      BY DEF Settled, ReadersOK
    <3>2. i + 1 \in 1..Len(queue) /\ queue'[i] = u
      BY <1>2, <3>1
    <3>3. u \in Ids
      BY <3>1, <3>2
    <3> HIDE DEF u
    <3>4. u = <<u[1], u[2]>> /\ u[1] \in Conns
      BY <3>3 DEF Ids
    <3> QED BY <3>1, <3>2, <3>3, <3>4 DEF u
  <2>2. /\ txns'[u[1]][u[2]].resp = txns[u[1]][u[2]].resp
        /\ u # t => txns'[u[1]][u[2]].shown = txns[u[1]][u[2]].shown
    BY <1>2, <1>4, <2>1
  <2>3. TxnOf(u).shown # "no" \/ \E j \in 1..((i + 1) - 1) : queue[j] = u
    <3>1. CASE u = t
      <4>1. 1 \in 1..((i + 1) - 1) /\ queue[1] = u
        BY <1>2, <2>1, <3>1
      <4> QED BY <4>1
    <3>2. CASE u # t /\ txns'[u[1]][u[2]].shown # "no"
      BY <2>2, <3>2 DEF TxnOf
    <3>3. ASSUME NEW j \in 1..(i - 1), queue'[j] = queue'[i]
          PROVE  \E l \in 1..((i + 1) - 1) : queue[l] = u
      <4>1. j \in 1..Len(queue') /\ j + 1 \in 1..((i + 1) - 1)
        BY <1>2
      <4> QED BY <1>2, <2>1, <3>3, <4>1
    <3> QED BY <2>1, <3>1, <3>2, <3>3
  <2>4. TxnOf(u).resp # NoResponse
    BY <2>1, <2>3 DEF Settled, KnownTxnsHaveResponses
  <2> QED BY <2>1, <2>2, <2>4 DEF TxnOf
<1> QED BY <1>5, <1>6, <1>7, <1>8 DEF Settled

-----------------------------------------------------------------------------
(* The ring                                                                *)

\* Txns are neither lost nor forgotten.
Kept ==
    \A d \in Conns : \A m \in 1..Len(txns[d]) :
        /\ m \in 1..Len(txns'[d])
        /\ txns[d][m].shown # "no" => txns'[d][m].shown # "no"

\* The goroutines of a connection and the view's updates keep the txns.
LEMMA TxnsAreKept ==
    ASSUME CopiesOK, Settled, NEW c \in Conns,
           ReadRequest(c) \/ ReadResponse(c) \/ UpdateNew \/ UpdateKnown \/ UNCHANGED txns
    PROVE  Kept
<1>0. txns \in [Conns -> Seq(Transactions)]
  BY DEF Settled, ReadersOK
<1>1. CASE UNCHANGED txns
  BY <1>1 DEF Kept
<1>2. CASE ReadRequest(c) /\ txns' # txns
  <2>1. /\ wch[c] \in Seq(Chunks) /\ wch[c] # <<>>
        /\ txns' = Set(txns, c, Append(txns[c], Txn(Head(Head(wch[c])))))
    BY <1>2 DEF ReadRequest, CopiesOK
  <2> DEFINE t == Txn(Head(Head(wch[c])))
  <2>2. t \in Transactions
    <3>1. Head(wch[c]) \in Chunks
      BY <2>1
    <3>2. Head(Head(wch[c])) \in Int
      BY <3>1 DEF Chunks
    <3> QED BY <3>2 DEF Txn, Transactions, NoResponse
  <2> HIDE DEF t
  <2>3. \A d \in Conns : txns'[d] = IF d = c THEN Append(txns[c], t) ELSE txns[d]
    BY <1>0, <2>1 DEF Set, t
  <2>4. \A m \in 1..Len(txns[c]) :
          m \in 1..Len(Append(txns[c], t)) /\ Append(txns[c], t)[m] = txns[c][m]
    <3>1. txns[c] \in Seq(Transactions)
      BY <1>0
    <3> QED BY <2>2, <3>1
  <2> QED BY <2>3, <2>4 DEF Kept
<1>3. CASE ReadResponse(c) /\ txns' # txns
  <2>1. /\ Responds(c, at[c], Head(Head(rch[c]))) /\ at[c] \in 1..Len(txns[c])
        /\ rch[c] \in Seq(Chunks) /\ rch[c] # <<>>
    BY <1>3 DEF ReadResponse, Responds, CopiesOK, Settled, ReadersOK
  <2>2. Head(Head(rch[c])) \in Int
    <3>1. Head(rch[c]) \in Chunks
      BY <2>1
    <3> QED BY <3>1 DEF Chunks
  <2>3. /\ \A d \in Conns : Len(txns'[d]) = Len(txns[d])
        /\ \A d \in Conns : \A m \in 1..Len(txns[d]) : txns'[d][m].shown = txns[d][m].shown
    BY <2>1, <2>2, RespWritten DEF Settled
  <2> QED BY <2>3 DEF Kept
<1>4. CASE (UpdateNew \/ UpdateKnown) /\ txns' # txns
  <2> DEFINE t == Head(queue)
  <2>1. queue # <<>> /\ queue \in Seq(Ids)
    BY <1>4 DEF UpdateNew, UpdateKnown, Settled, ReadersOK
  <2>2. t \in Ids /\ t = queue[1] /\ 1 \in 1..Len(queue) /\ t = <<t[1], t[2]>>
    BY <2>1 DEF Ids
  <2>3. t[1] \in Conns /\ t[2] \in 1..Len(txns[t[1]])
    BY <2>2 DEF Settled, ReadersOK, Ids
  <2>4. PICK w \in {"request", "response"} : Shows(<<t[1], t[2]>>, w)
    BY <1>4, <2>2 DEF UpdateNew, UpdateKnown, Shows
  <2> HIDE DEF t
  <2>5. /\ \A d \in Conns : Len(txns'[d]) = Len(txns[d])
        /\ \A d \in Conns : \A m \in 1..Len(txns[d]) :
              txns'[d][m].shown = IF d = t[1] /\ m = t[2] THEN w ELSE txns[d][m].shown
    BY <2>3, <2>4, ShownWritten DEF Settled
  <2> QED BY <2>5 DEF Kept
<1> QED BY <1>1, <1>2, <1>3, <1>4

\* So are those of the ring.
LEMMA RingTxnsKept ==
    ASSUME RingOK, Kept, NEW i \in 1..Len(ring)
    PROVE  ring[i][2] \in 1..Len(txns'[ring[i][1]]) /\ txns'[ring[i][1]][ring[i][2]].shown # "no"
<1>1. /\ ring[i] \in Ids /\ ring[i][2] \in 1..Len(txns[ring[i][1]])
      /\ txns[ring[i][1]][ring[i][2]].shown # "no"
  BY DEF RingOK, RingShape, RingTxns, TxnOf
<1>2. ring[i][1] \in Conns
  BY <1>1 DEF Ids
<1> QED BY <1>1, <1>2 DEF Kept

\* The ring stays as it is while its txns are kept.
LEMMA RingKept ==
    ASSUME RingOK, Kept, UNCHANGED web
    PROVE  RingOK'
<1>1. UNCHANGED <<view, adding, ring, idToTxn>>
  BY DEF web
<1>2. \A i \in 1..Len(ring) :
        ring[i][2] \in 1..Len(txns'[ring[i][1]]) /\ txns'[ring[i][1]][ring[i][2]].shown # "no"
  BY RingTxnsKept
<1>3. view = "add" =>
        /\ adding[2] \in 1..Len(txns'[adding[1]])
        /\ txns'[adding[1]][adding[2]].shown # "no"
  BY DEF RingOK, RingShape, RingTxns, Kept, Ids, TxnOf
<1>4. RingShape'
  BY <1>1 DEF RingOK, RingShape
<1>5. RingTxns'
  BY <1>1, <1>2, <1>3 DEF RingTxns, TxnOf
<1> QED BY <1>4, <1>5 DEF RingOK

\* A txn that the view sees for the first time is not in the ring.
LEMMA UpdateNewKeepsRing ==
    ASSUME CopiesOK, Settled, RingOK, UpdateNew, Kept
    PROVE  RingOK'
<1> DEFINE t == Head(queue)
<1>1. CASE UNCHANGED <<txns, idToTxn, view, adding>>
  BY <1>1, RingKept DEF UpdateNew, web
<1>2. CASE /\ Shows(t, "request") /\ idToTxn' = idToTxn \cup {t} /\ view' = "add" /\ adding' = t
  <2>1. /\ queue # <<>> /\ queue \in Seq(Ids) /\ view = "select" /\ UNCHANGED ring
        /\ TxnOf(t).shown = "no"
    BY DEF UpdateNew, Settled, ReadersOK
  <2>2. t \in Ids /\ t = queue[1] /\ 1 \in 1..Len(queue) /\ t = <<t[1], t[2]>>
    BY <2>1 DEF Ids
  <2>3. t[1] \in Conns /\ t[2] \in 1..Len(txns[t[1]])
    BY <2>2 DEF Settled, ReadersOK, Ids
  <2>4. Shows(<<t[1], t[2]>>, "request")
    BY <1>2, <2>2
  <2> HIDE DEF t
  <2>5. t[2] \in 1..Len(txns'[t[1]]) /\ txns'[t[1]][t[2]].shown # "no"
    BY <2>3, <2>4, ShownWritten DEF Settled
  <2>6. \A i \in 1..Len(ring) : ring[i] # t
    BY <2>1 DEF RingOK, RingShape, RingTxns
  <2>7. \A i \in 1..Len(ring) :
          ring[i][2] \in 1..Len(txns'[ring[i][1]]) /\ txns'[ring[i][1]][ring[i][2]].shown # "no"
    BY RingTxnsKept
  <2> QED BY <1>2, <2>1, <2>2, <2>5, <2>6, <2>7 DEF RingOK, RingShape, RingTxns, TxnOf
<1> QED BY <1>1, <1>2 DEF UpdateNew

\* What is added comes first, and the last one makes room for it.
LEMMA AddToRingKeepsRing ==
    ASSUME RingOK, AddToRing, txns \in [Conns -> Seq(Transactions)]
    PROVE  RingOK'
<1> DEFINE full == Len(ring) = RingCapacity
           rest == IF full THEN SubSeq(ring, 1, Len(ring) - 1) ELSE ring
           n == Len(ring)
<1>1. /\ view = "add" /\ view' = "select" /\ ring' = <<adding>> \o rest
      /\ idToTxn' = IF full THEN idToTxn \ {ring[n]} ELSE idToTxn
      /\ UNCHANGED txns
  BY DEF AddToRing, readers
<1>2. /\ ring \in Seq(Ids) /\ n \in Nat /\ n <= RingCapacity /\ RingCapacity \in Nat \ {0}
      /\ adding \in Ids /\ adding[2] \in 1..Len(txns[adding[1]]) /\ TxnOf(adding).shown # "no"
      /\ idToTxn = {ring[i] : i \in 1..n} \cup {adding}
      /\ \A i \in 1..n : ring[i] # adding
      /\ \A i, j \in 1..n : ring[i] = ring[j] => i = j
      /\ \A i \in 1..n : ring[i][2] \in 1..Len(txns[ring[i][1]]) /\ TxnOf(ring[i]).shown # "no"
  <2>1. RingShape /\ RingTxns /\ view = "add"
    BY <1>1 DEF RingOK
  <2>2. ring \in Seq(Ids) /\ n \in Nat /\ n <= RingCapacity /\ RingCapacity \in Nat \ {0}
    BY <2>1, InspectionAssumption DEF RingShape
  <2>3. /\ adding \in Ids /\ idToTxn = {ring[i] : i \in 1..n} \cup {adding}
        /\ \A i \in 1..n : ring[i] # adding
        /\ \A i, j \in 1..n : ring[i] = ring[j] => i = j
    BY <2>1 DEF RingShape
  <2>4. /\ adding[2] \in 1..Len(txns[adding[1]]) /\ TxnOf(adding).shown # "no"
        /\ \A i \in 1..n : ring[i][2] \in 1..Len(txns[ring[i][1]]) /\ TxnOf(ring[i]).shown # "no"
    BY <2>1 DEF RingTxns
  <2> QED BY <2>2, <2>3, <2>4
<1>3. PICK m \in Nat :
        /\ m = IF full THEN n - 1 ELSE n
        /\ rest \in Seq(Ids) /\ Len(rest) = m /\ m + 1 <= RingCapacity /\ m <= n
        /\ \A i \in 1..m : rest[i] = ring[i]
  <2>1. CASE full
    <3>1. n - 1 \in Nat
      BY <1>2, <2>1
    <3>2. /\ SubSeq(ring, 1, n - 1) \in Seq(Ids) /\ Len(SubSeq(ring, 1, n - 1)) = n - 1
          /\ \A i \in 1..(n - 1) : SubSeq(ring, 1, n - 1)[i] = ring[i]
      BY <1>2, <3>1, FrontOfSeq
    <3> QED BY <1>2, <2>1, <3>1, <3>2
  <2>2. CASE ~full
    BY <1>2, <2>2
  <2> QED BY <2>1, <2>2
<1> HIDE DEF rest
<1>4. /\ ring' \in Seq(Ids) /\ Len(ring') = m + 1 /\ ring'[1] = adding
      /\ \A i \in 1..m : ring'[i + 1] = ring[i]
  BY <1>1, <1>2, <1>3
<1>5. \A i \in 1..(m + 1) : i = 1 \/ (i - 1 \in 1..m /\ i - 1 \in 1..n /\ ring'[i] = ring[i - 1])
  <2> SUFFICES ASSUME NEW i \in 1..(m + 1), i # 1
               PROVE  i - 1 \in 1..m /\ i - 1 \in 1..n /\ ring'[i] = ring[i - 1]
    OBVIOUS
  <2>1. i - 1 \in 1..m /\ i - 1 \in 1..n /\ (i - 1) + 1 = i
    BY <1>2, <1>3
  <2> QED BY <1>4, <2>1
<1>6. \A i, j \in 1..(m + 1) : ring'[i] = ring'[j] => i = j
  <2> SUFFICES ASSUME NEW i \in 1..(m + 1), NEW j \in 1..(m + 1), ring'[i] = ring'[j]
               PROVE  i = j
    OBVIOUS
  <2>1. CASE i = 1 \/ j = 1
    <3>1. \A l \in 1..(m + 1) : l # 1 => ring'[l] # adding
      BY <1>2, <1>5
    <3> QED BY <1>4, <2>1, <3>1
  <2>2. CASE i # 1 /\ j # 1
    <3>1. /\ i - 1 \in 1..n /\ ring'[i] = ring[i - 1]
          /\ j - 1 \in 1..n /\ ring'[j] = ring[j - 1]
      BY <1>5, <2>2
    <3>2. i - 1 = j - 1
      BY <1>2, <3>1
    <3> QED BY <3>2
  <2> QED BY <2>1, <2>2
<1>7. \A i \in 1..(m + 1) :
        ring'[i][2] \in 1..Len(txns[ring'[i][1]]) /\ txns[ring'[i][1]][ring'[i][2]].shown # "no"
  <2> SUFFICES ASSUME NEW i \in 1..(m + 1)
               PROVE  /\ ring'[i][2] \in 1..Len(txns[ring'[i][1]])
                      /\ txns[ring'[i][1]][ring'[i][2]].shown # "no"
    OBVIOUS
  <2>1. CASE i = 1
    BY <1>2, <1>4, <2>1 DEF TxnOf
  <2>2. CASE i # 1
    <3>1. i - 1 \in 1..n /\ ring'[i] = ring[i - 1]
      BY <1>5, <2>2
    <3> QED BY <1>2, <3>1 DEF TxnOf
  <2> QED BY <2>1, <2>2
<1>8. idToTxn' = {ring'[i] : i \in 1..(m + 1)}
  <2>1. \A i \in 1..n : i \in 1..m \/ (full /\ i = n)
    BY <1>2, <1>3
  <2>2. {ring'[i] : i \in 1..(m + 1)} = {adding} \cup {ring[i] : i \in 1..m}
    <3>1. ASSUME NEW x \in {adding} \cup {ring[i] : i \in 1..m}
          PROVE  x \in {ring'[i] : i \in 1..(m + 1)}
      <4>1. CASE x = adding
        <5>1. 1 \in 1..(m + 1) /\ ring'[1] = x
          BY <1>3, <1>4, <4>1
        <5> QED BY <5>1
      <4>2. ASSUME NEW i \in 1..m, x = ring[i]
            PROVE  x \in {ring'[l] : l \in 1..(m + 1)}
        <5>1. i + 1 \in 1..(m + 1) /\ ring'[i + 1] = x
          BY <1>3, <1>4, <4>2
        <5> QED BY <5>1
      <4>3. x = adding \/ \E i \in 1..m : x = ring[i]
        OBVIOUS
      <4> QED BY <4>1, <4>2, <4>3
    <3>2. ASSUME NEW i \in 1..(m + 1)
          PROVE  ring'[i] \in {adding} \cup {ring[l] : l \in 1..m}
      BY <1>4, <1>5
    <3> QED BY <3>1, <3>2
  <2>3. CASE full
    <3>1. m = n - 1 /\ n \in 1..n /\ ring[n] # adding
      BY <1>2, <1>3, <2>3
    <3>2. \A i \in 1..m : i \in 1..n /\ ring[i] # ring[n]
      BY <1>2, <3>1
    <3>3. {ring[i] : i \in 1..n} \ {ring[n]} = {ring[i] : i \in 1..m}
      BY <2>1, <3>1, <3>2
    <3> QED BY <1>1, <1>2, <2>2, <2>3, <3>1, <3>3
  <2>4. CASE ~full
    BY <1>1, <1>2, <1>3, <2>2, <2>4
  <2> QED BY <2>3, <2>4
<1> QED BY <1>1, <1>3, <1>4, <1>6, <1>7, <1>8 DEF RingOK, RingShape, RingTxns, TxnOf

-----------------------------------------------------------------------------
(* The invariant of the specification                                      *)

\* Nothing is there at first.
LEMMA InitInv == Init => IndInv
<1> SUFFICES ASSUME Init  PROVE IndInv
  OBVIOUS
<1>1. CopiesOK
  BY DEF Init, CopiesOK
<1>2. ReadersOK
  BY DEF Init, ReadersOK
<1>3. UntoldIsNew /\ ToldIsAnswered /\ KnownTxnsHaveResponses
  BY DEF Init, UntoldIsNew, ToldIsAnswered, KnownTxnsHaveResponses
<1>4. RingOK
  BY InspectionAssumption DEF Init, RingOK, RingShape, RingTxns
<1> QED BY <1>1, <1>2, <1>3, <1>4 DEF IndInv, UpdatesInv

\* Every step keeps what the readers and the view rely on.
LEMMA UpdatesStep ==
    ASSUME IndInv, Next
    PROVE  UpdatesInv'
<1>1. CopiesOK'
  BY CopiesStep DEF IndInv, UpdatesInv
<1>2. CopiesOK /\ Settled
  BY DEF IndInv, UpdatesInv, Settled
<1>3. ASSUME NEW c \in Conns, ReadRequest(c)  PROVE Settled'
  BY <1>2, <1>3, ReadRequestStep
<1>4. ASSUME NEW c \in Conns, TellRequest(c) \/ TellResponse(c)  PROVE Settled'
  BY <1>2, <1>4, TellStep
<1>5. ASSUME NEW c \in Conns, ReadResponse(c)  PROVE Settled'
  BY <1>2, <1>5, ReadResponseStep
<1>6. ASSUME NEW c \in Conns,
             \/ RequestsEnd(c) \/ HandOver(c) \/ ResponseMissing(c) \/ ResponsesEnd(c) \/ DrainEnds(c)
             \/ Join(c)
      PROVE  Settled'
  <2>1. CASE Join(c)
    <3>1. Wraps(c) /\ UNCHANGED <<txns, at, queue>>
      BY <2>1 DEF Join
    <3> QED BY <1>2, <3>1, QuietSteps
  <2> QED BY <1>2, <1>6, <2>1, QuietSteps
<1>7. ASSUME UNCHANGED <<readers, queue>>  PROVE Settled'
  BY <1>2, <1>7, StandStill
<1>8. ASSUME NEW c \in Conns,
             \/ VisitorSends(c) \/ TeeWrite(c) \/ TeeWriteFails(c) \/ VisitorEnds(c)
             \/ TeeRead(c) \/ TeeReadEnds(c) \/ Delivers(c)
             \/ DrainRequests(c) \/ DrainResponses(c)
      PROVE  Settled'
  BY <1>7, <1>8 DEF VisitorSends, TeeWrite, TeeWriteFails, VisitorEnds, TeeRead, TeeReadEnds,
                    Delivers, DrainRequests, DrainResponses
<1>9. ASSUME UpdateHttp  PROVE Settled'
  <2>1. CASE AddToRing
    BY <1>7, <2>1 DEF AddToRing
  <2> QED BY <1>2, <1>9, <2>1, UpdateStep DEF UpdateHttp
<1>10. Settled'
  <2>1. ASSUME NEW t \in idToTxn, Replay(t)  PROVE Settled'
    <3>1. PICK d \in Replays : Wraps(d) /\ UNCHANGED <<txns, at, queue>>
      BY <2>1 DEF Replay
    <3>2. d \in Conns
      BY DEF Conns
    <3> QED BY <1>2, <3>1, <3>2, QuietSteps
  <2> QED BY <1>3, <1>4, <1>5, <1>6, <1>8, <1>9, <2>1 DEF Next, Readers
<1> QED BY <1>1, <1>10 DEF UpdatesInv, Settled

\* Every step keeps the ring.
LEMMA RingStep ==
    ASSUME IndInv, Next
    PROVE  RingOK'
<1>1. CopiesOK /\ Settled /\ RingOK
  BY DEF IndInv, UpdatesInv, Settled
<1>2. ASSUME NEW c \in Conns, ReadRequest(c) \/ ReadResponse(c)  PROVE RingOK'
  <2>1. Kept /\ UNCHANGED web
    BY <1>1, <1>2, TxnsAreKept DEF ReadRequest, ReadResponse
  <2> QED BY <1>1, <2>1, RingKept
<1>3. CASE UNCHANGED <<txns, web>>
  <2>1. Kept
    BY <1>3 DEF Kept
  <2> QED BY <1>1, <1>3, <2>1, RingKept
<1>4. ASSUME NEW c \in Conns,
             \/ Join(c) \/ VisitorSends(c) \/ TeeWrite(c) \/ TeeWriteFails(c) \/ VisitorEnds(c)
             \/ TeeRead(c) \/ TeeReadEnds(c) \/ Delivers(c)
      PROVE  RingOK'
  BY <1>3, <1>4 DEF Join, VisitorSends, TeeWrite, TeeWriteFails, VisitorEnds, TeeRead,
                    TeeReadEnds, Delivers, readers
<1>5. ASSUME NEW c \in Conns,
             \/ RequestsEnd(c) \/ HandOver(c) \/ TellRequest(c) \/ ResponseMissing(c)
             \/ TellResponse(c) \/ ResponsesEnd(c)
             \/ DrainRequests(c) \/ DrainResponses(c) \/ DrainEnds(c)
      PROVE  RingOK'
  BY <1>3, <1>5 DEF RequestsEnd, HandOver, TellRequest, ResponseMissing, TellResponse,
                    ResponsesEnd, DrainRequests, DrainResponses, DrainEnds, readers
<1>6. ASSUME NEW t \in idToTxn, Replay(t)  PROVE RingOK'
  BY <1>3, <1>6 DEF Replay
<1>7. CASE UpdateNew \/ UpdateKnown
  <2>1. Head(queue)[1] \in Conns
    <3>1. queue \in Seq(Ids) /\ queue # <<>>
      BY <1>1, <1>7 DEF UpdateNew, UpdateKnown, Settled, ReadersOK
    <3>2. Head(queue) \in Ids
      BY <3>1
    <3> QED BY <3>2 DEF Ids
  <2>2. Kept
    BY <1>1, <1>7, <2>1, TxnsAreKept
  <2>3. CASE UpdateKnown
    BY <1>1, <2>2, <2>3, RingKept DEF UpdateKnown
  <2> QED BY <1>1, <1>7, <2>2, <2>3, UpdateNewKeepsRing
<1>8. CASE AddToRing
  <2>1. txns \in [Conns -> Seq(Transactions)]
    BY <1>1 DEF Settled, ReadersOK
  <2> QED BY <1>1, <1>8, <2>1, AddToRingKeepsRing
<1> QED BY <1>2, <1>4, <1>5, <1>6, <1>7, <1>8 DEF Next, Readers, UpdateHttp

\* IndInv is an invariant: updates are of txns that there are, and the ring is kept in step.
LEMMA Invariant == Spec => []IndInv
<1>1. Init => IndInv
  BY InitInv
<1>2. IndInv /\ [Next]_vars => IndInv'
  <2>1. ASSUME IndInv, Next  PROVE IndInv'
    BY <2>1, UpdatesStep, RingStep DEF IndInv
  <2>2. ASSUME IndInv, UNCHANGED vars  PROVE IndInv'
    <3>1. UNCHANGED <<sent, answered, wch, rch, readers, queue, web, txns>>
      BY <2>2 DEF vars, traffic, tee, readers
    <3>2. CopiesOK'
      BY <2>2, <3>1 DEF IndInv, UpdatesInv, CopiesOK
    <3>3. Settled'
      BY <2>2, <3>1, StandStill DEF IndInv, UpdatesInv, Settled
    <3>4. RingOK'
      BY <2>2, <3>1, RingKept DEF IndInv, Kept
    <3> QED BY <3>2, <3>3, <3>4 DEF IndInv, UpdatesInv, Settled
  <2> QED BY <2>1, <2>2
<1> QED BY <1>1, <1>2, PTL DEF Spec

(***************************************************************************)
(* Whatever is dropped, torn or overtaken, updateHttp (http.go:153) finds  *)
(* a response in every txn that it has seen before.                        *)
(***************************************************************************)
THEOREM UpdatesHaveResponses == Spec => []KnownTxnsHaveResponses
<1>1. IndInv => KnownTxnsHaveResponses
  BY DEF IndInv, UpdatesInv
<1> QED BY <1>1, Invariant, PTL

(***************************************************************************)
(* For every size of the ring, the requests that the page lists are the    *)
(* ones that it can replay (http.go:140-148, ring.go).                     *)
(***************************************************************************)
THEOREM RingAndMapAgree == Spec => []ListedIsReplayable
<1>1. IndInv => ListedIsReplayable
  BY DEF IndInv, RingOK, RingShape, RingTxns, ListedIsReplayable
<1> QED BY <1>1, Invariant, PTL

-----------------------------------------------------------------------------
(* Requests and responses, counted                                         *)

\* A copy carries the messages n + 1 to total, one in each chunk up to a chunk with more.
Numbered(ch, n, total, other) ==
    /\ \A i \in 1..Len(ch) :
        (\A j \in 1..(i - 1) : Len(ch[j]) = 1) => Head(ch[i]) \in {n + i} \cup other
    /\ (\A i \in 1..Len(ch) : Len(ch[i]) = 1) => total = n + Len(ch)

\* How many responses readResponses has read.
ResponsesRead(c) == IF rs[c] = "read" THEN at[c] - 1 ELSE at[c]

\* Both readers are at the message that the copies go on with, and at the same txn.
InStep(c) ==
    /\ \A k \in 1..Len(txns[c]) : txns[c][k].req = k
    /\ at[c] = Len(txns[c]) - (IF rq[c] = "hand" THEN 1 ELSE 0)
    /\ Numbered(wch[c], Len(txns[c]), sent[c], {Frame})
    /\ Numbered(rch[c], ResponsesRead(c), answered[c], {})

\* The responses of a connection are those to its requests, and the next ones will be.
Matched(c) ==
    /\ up[c] = "off" => rq[c] = "off" /\ rs[c] = "off"
    /\ ~torn[c] /\ rs[c] \notin {"drain", "done"} => InStep(c)
    /\ ~torn[c] => \A k \in 1..Len(txns[c]) : txns[c][k].resp \in {NoResponse, txns[c][k].req}

MatchedInv ==
    /\ up \in [Conns -> {"off", "read", "write", "ended"}] /\ torn \in [Conns -> BOOLEAN]
    /\ \A c \in Conns : Matched(c)

\* A chunk that goes on with the numbers keeps them.
LEMMA NumberedOffer ==
    ASSUME NEW s \in Seq(Chunks), NEW n \in Int, NEW total \in Int, NEW other,
           NEW chunk \in Chunks, Numbered(s, n, total, other),
           Head(chunk) \in {total + 1} \cup other
    PROVE  Numbered(Append(s, chunk), n, total + Len(chunk), other)
<1> DEFINE a == Append(s, chunk)
<1>1. /\ Len(s) \in Nat /\ Len(a) = Len(s) + 1 /\ a[Len(s) + 1] = chunk
      /\ \A i \in 1..Len(s) : a[i] = s[i]
  OBVIOUS
<1> HIDE DEF a
<1>2. ASSUME \A i \in 1..Len(s) : Len(a[i]) = 1
      PROVE  total = n + Len(s)
  BY <1>1, <1>2 DEF Numbered
<1>3. ASSUME NEW i \in 1..Len(a), \A j \in 1..(i - 1) : Len(a[j]) = 1
      PROVE  Head(a[i]) \in {n + i} \cup other
  <2>1. CASE i \in 1..Len(s)
    <3>1. \A j \in 1..(i - 1) : j \in 1..Len(s) /\ Len(s[j]) = 1
      BY <1>1, <1>3, <2>1
    <3> QED BY <1>1, <2>1, <3>1 DEF Numbered
  <2>2. CASE i = Len(s) + 1
    <3>1. \A j \in 1..Len(s) : Len(a[j]) = 1
      BY <1>1, <1>3, <2>2
    <3> QED BY <1>1, <1>2, <2>2, <3>1
  <2> QED BY <1>1, <2>1, <2>2
<1>4. ASSUME \A i \in 1..Len(a) : Len(a[i]) = 1
      PROVE  total + Len(chunk) = n + Len(a)
  <2>1. Len(chunk) = 1 /\ \A i \in 1..Len(s) : Len(a[i]) = 1
    BY <1>1, <1>4
  <2> QED BY <1>1, <1>2, <2>1
<1> QED BY <1>3, <1>4 DEF Numbered, a

\* Reading a chunk with one message leaves the numbers that follow.
LEMMA NumberedTake ==
    ASSUME NEW s \in Seq(Chunks), NEW n \in Int, NEW total \in Int, NEW other,
           s # <<>>, Numbered(s, n, total, other)
    PROVE  /\ Head(Head(s)) \in {n + 1} \cup other
           /\ Len(Head(s)) = 1 => Numbered(Tail(s), n + 1, total, other)
<1> DEFINE r == Tail(s)
<1>1. /\ Len(s) \in Nat \ {0} /\ Len(r) = Len(s) - 1 /\ Head(s) = s[1]
      /\ \A i \in 1..Len(r) : r[i] = s[i + 1]
  OBVIOUS
<1> HIDE DEF r
<1>2. Head(s[1]) \in {n + 1} \cup other
  BY <1>1 DEF Numbered
<1>3. ASSUME Len(s[1]) = 1, NEW i \in 1..Len(r), \A j \in 1..(i - 1) : Len(r[j]) = 1
      PROVE  Head(r[i]) \in {n + 1 + i} \cup other
  <2>1. ASSUME NEW j \in 1..i
        PROVE  Len(s[j]) = 1
    <3>1. CASE j = 1
      BY <1>3, <3>1
    <3>2. CASE j # 1
      <4>1. j - 1 \in 1..(i - 1) /\ j - 1 \in 1..Len(r) /\ (j - 1) + 1 = j
        BY <1>1, <3>2
      <4> QED BY <1>1, <1>3, <4>1
    <3> QED BY <3>1, <3>2
  <2>2. i + 1 \in 1..Len(s) /\ (i + 1) - 1 = i /\ r[i] = s[i + 1]
    BY <1>1
  <2>3. Head(s[i + 1]) \in {n + (i + 1)} \cup other
    BY <2>1, <2>2 DEF Numbered
  <2> QED BY <2>2, <2>3
<1>4. ASSUME Len(s[1]) = 1, \A i \in 1..Len(r) : Len(r[i]) = 1
      PROVE  total = n + 1 + Len(r)
  <2>1. ASSUME NEW j \in 1..Len(s)
        PROVE  Len(s[j]) = 1
    <3>1. CASE j = 1
      BY <1>4, <3>1
    <3>2. CASE j # 1
      <4>1. j - 1 \in 1..Len(r) /\ (j - 1) + 1 = j
        BY <1>1, <3>2
      <4> QED BY <1>1, <1>4, <4>1
    <3> QED BY <3>1, <3>2
  <2>2. total = n + Len(s)
    BY <2>1 DEF Numbered
  <2> QED BY <1>1, <2>2
<1> QED BY <1>1, <1>2, <1>3, <1>4 DEF Numbered, r

\* Loses marks one copy.
LEMMA LosesMarks ==
    ASSUME torn \in [Conns -> BOOLEAN], NEW c \in Conns, NEW lost \in BOOLEAN, Loses(c, lost)
    PROVE  /\ torn' \in [Conns -> BOOLEAN]
           /\ \A d \in Conns : ~torn'[d] => ~torn[d]
           /\ ~torn'[c] => ~lost
BY DEF Loses, Set

\* A step that moves none of the counts keeps them in step.
LEMMA MatchedStays ==
    ASSUME NEW d \in Conns, Matched(d), ~torn'[d] => ~torn[d],
           up'[d] = "off" => up[d] = "off" /\ rq'[d] = rq[d] /\ rs'[d] = rs[d],
           rq'[d] = "hand" <=> rq[d] = "hand",
           Len(txns'[d]) = Len(txns[d]),
           \A k \in 1..Len(txns[d]) :
                txns'[d][k].req = txns[d][k].req /\ txns'[d][k].resp = txns[d][k].resp,
           ~torn'[d] /\ rs'[d] \notin {"drain", "done"} =>
                /\ rs[d] \notin {"drain", "done"} /\ (rs'[d] = "read" <=> rs[d] = "read")
                /\ at'[d] = at[d] /\ wch'[d] = wch[d] /\ rch'[d] = rch[d]
                /\ sent'[d] = sent[d] /\ answered'[d] = answered[d]
    PROVE  Matched(d)'
<1>1. ASSUME ~torn'[d], rs'[d] \notin {"drain", "done"}
      PROVE  InStep(d)'
  BY <1>1 DEF Matched, InStep, ResponsesRead
<1>2. (up[d] = "off" => rq[d] = "off" /\ rs[d] = "off")'
  BY DEF Matched
<1>3. (~torn[d] => \A k \in 1..Len(txns[d]) : txns[d][k].resp \in {NoResponse, txns[d][k].req})'
  BY DEF Matched
<1> QED BY <1>1, <1>2, <1>3 DEF Matched

\* What a step of one connection leaves of the others.
Untouched(d) ==
    /\ up'[d] = up[d] /\ rq'[d] = rq[d] /\ rs'[d] = rs[d] /\ at'[d] = at[d] /\ txns'[d] = txns[d]
    /\ wch'[d] = wch[d] /\ rch'[d] = rch[d] /\ sent'[d] = sent[d] /\ answered'[d] = answered[d]

LEMMA UntouchedStays ==
    ASSUME NEW d \in Conns, Matched(d), Untouched(d), ~torn'[d] => ~torn[d]
    PROVE  Matched(d)'
BY MatchedStays DEF Untouched

\* The copiers and PlayRequest: what they copy goes on with the numbers, or is lost.
LEMMA CopiersKeepCounts ==
    ASSUME IndInv, MatchedInv, NEW c \in Conns,
           \/ Join(c) \/ (Wraps(c) /\ up' = Set(up, c, "write")
                         /\ UNCHANGED <<sent, answered, interim, wch, rch, txns, at, queue, web, torn>>)
           \/ VisitorSends(c) \/ TeeWrite(c) \/ TeeWriteFails(c) \/ VisitorEnds(c)
           \/ TeeRead(c) \/ TeeReadEnds(c) \/ Delivers(c)
    PROVE  MatchedInv'
<1>1. CopiesOK /\ ReadersOK
  BY DEF IndInv, UpdatesInv
<1>2. up \in [Conns -> {"off", "read", "write", "ended"}] /\ torn \in [Conns -> BOOLEAN]
  BY DEF MatchedInv
<1>3. CASE \/ Join(c) \/ (Wraps(c) /\ up' = Set(up, c, "write")
                         /\ UNCHANGED <<sent, answered, interim, wch, rch, txns, at, queue, web, torn>>)
  <2>1. /\ up[c] = "off" /\ up'[c] # "off" /\ rq'[c] = "read" /\ rs'[c] = "range"
        /\ \A d \in Conns : d # c => up'[d] = up[d] /\ rq'[d] = rq[d] /\ rs'[d] = rs[d]
        /\ UNCHANGED <<sent, answered, wch, rch, txns, at, torn>>
        /\ up' \in [Conns -> {"off", "read", "write", "ended"}]
    BY <1>1, <1>2, <1>3 DEF Join, Wraps, Set, ReadersOK
  <2>2. ASSUME NEW d \in Conns, d # c  PROVE Matched(d)'
    BY <2>1, <2>2, UntouchedStays DEF Untouched, MatchedInv
  <2>3. Matched(c) /\ rq[c] = "off" /\ rs[c] = "off"
    BY <2>1 DEF MatchedInv, Matched
  <2>4. Matched(c)'
    BY <2>1, <2>3, MatchedStays
  <2> QED BY <1>2, <2>1, <2>2, <2>4 DEF MatchedInv
<1>4. CASE VisitorSends(c) \/ VisitorEnds(c) \/ Delivers(c)
  <2>1. /\ \A d \in Conns : up'[d] = "off" => up[d] = "off"
        /\ UNCHANGED <<rq, rs, sent, answered, wch, rch, txns, at, torn>>
        /\ up' \in [Conns -> {"off", "read", "write", "ended"}]
    BY <1>2, <1>4 DEF VisitorSends, VisitorEnds, Delivers, Set, tee, readers
  <2> QED BY <1>2, <2>1, MatchedStays DEF MatchedInv
<1>5. CASE TeeWriteFails(c) \/ TeeReadEnds(c)
  <2>1. \E lost \in BOOLEAN : Loses(c, lost)
    BY <1>5 DEF TeeWriteFails, TeeReadEnds
  <2>2. /\ \A d \in Conns : up'[d] = "off" => up[d] = "off"
        /\ UNCHANGED <<rq, rs, sent, answered, wch, rch, txns, at>>
        /\ up' \in [Conns -> {"off", "read", "write", "ended"}]
    BY <1>2, <1>5 DEF TeeWriteFails, TeeReadEnds, Set, readers
  <2>3. torn' \in [Conns -> BOOLEAN] /\ \A d \in Conns : ~torn'[d] => ~torn[d]
    BY <1>2, <2>1, LosesMarks
  <2> QED BY <2>2, <2>3, MatchedStays DEF MatchedInv
<1>6. CASE TeeWrite(c)
  <2>1. PICK chunk \in RequestChunks(c) :
          /\ sent' = Set(sent, c, sent[c] + Len(chunk))
          /\ wch' = Offer(wch, c, chunk) /\ Loses(c, ~HasRoom(wch, c))
    BY <1>6 DEF TeeWrite
  <2>2. chunk \in Chunks /\ sent[c] + Len(chunk) \in Nat /\ sent[c] \in Nat
    BY <1>1, RequestChunksAreChunks DEF CopiesOK
  <2>3. Head(chunk) \in {sent[c] + 1} \cup {Frame}
    <3>1. chunk \in {<<Frame>>, <<sent[c] + 1>>, <<sent[c] + 1, sent[c] + 2>>}
      BY DEF RequestChunks
    <3> QED BY <2>2, <3>1, ShortChunks DEF Frame
  <2>4. /\ torn' \in [Conns -> BOOLEAN] /\ (\A d \in Conns : ~torn'[d] => ~torn[d])
        /\ ~torn'[c] => HasRoom(wch, c)
    <3>1. HasRoom(wch, c) \in BOOLEAN
      BY DEF HasRoom
    <3> QED BY <1>2, <2>1, <3>1, LosesMarks
  <2>5. /\ up' \in [Conns -> {"off", "read", "write", "ended"}] /\ up[c] # "off" /\ up'[c] # "off"
        /\ UNCHANGED <<answered, rch, rq, rs, txns, at>>
        /\ sent'[c] = sent[c] + Len(chunk)
        /\ HasRoom(wch, c) => wch'[c] = Append(wch[c], chunk)
        /\ \A d \in Conns : d # c => up'[d] = up[d] /\ sent'[d] = sent[d] /\ wch'[d] = wch[d]
    BY <1>1, <1>2, <1>6, <2>1 DEF TeeWrite, Set, Offer, HasRoom, CopiesOK, readers
  <2>6. ASSUME NEW d \in Conns, d # c  PROVE Matched(d)'
    BY <2>4, <2>5, <2>6, UntouchedStays DEF Untouched, MatchedInv
  <2>7. Matched(c)'
    <3>1. Matched(c)
      BY DEF MatchedInv
    <3>2. ASSUME ~torn'[c], rs[c] \notin {"drain", "done"}
          PROVE  Numbered(wch'[c], Len(txns[c]), sent'[c], {Frame})
      <4>1. Numbered(wch[c], Len(txns[c]), sent[c], {Frame})
        BY <2>4, <3>1, <3>2 DEF Matched, InStep
      <4>2. wch[c] \in Seq(Chunks) /\ Len(txns[c]) \in Int
        BY <1>1 DEF CopiesOK, ReadersOK
      <4>3. PICK other, s, n, total :
              other = {Frame} /\ s = wch[c] /\ n = Len(txns[c]) /\ total = sent[c]
        OBVIOUS
      <4>4. /\ s \in Seq(Chunks) /\ n \in Int /\ total \in Int
            /\ Numbered(s, n, total, other) /\ Head(chunk) \in {total + 1} \cup other
        BY <2>2, <2>3, <4>1, <4>2, <4>3
      <4>5. Numbered(Append(s, chunk), n, total + Len(chunk), other)
        BY <2>2, <4>4, NumberedOffer
      <4> QED BY <2>4, <2>5, <3>2, <4>3, <4>5
    <3> QED BY <2>4, <2>5, <3>1, <3>2 DEF Matched, InStep, ResponsesRead
  <2> QED BY <2>4, <2>5, <2>6, <2>7 DEF MatchedInv
<1>7. CASE TeeRead(c)
  <2>1. /\ UNCHANGED <<up, sent, wch, rq, rs, txns, at>>
        /\ \/ \E chunk \in ResponseChunks(c) :
                /\ answered' = Set(answered, c, answered[c] + Len(chunk))
                /\ rch' = Offer(rch, c, chunk) /\ Loses(c, ~HasRoom(rch, c))
           \/ rch' = Offer(rch, c, <<Interim>>) /\ Loses(c, TRUE) /\ UNCHANGED answered
    BY <1>7 DEF TeeRead, readers
  <2>2. CASE rch' = Offer(rch, c, <<Interim>>) /\ Loses(c, TRUE) /\ UNCHANGED answered
    <3>1. /\ torn' \in [Conns -> BOOLEAN] /\ torn'[c] /\ \A d \in Conns : ~torn'[d] => ~torn[d]
      BY <1>2, <2>2, LosesMarks
    <3>2. \A d \in Conns : d # c => rch'[d] = rch[d]
      BY <1>1, <2>2 DEF Offer, Set, CopiesOK
    <3>3. ASSUME NEW d \in Conns  PROVE Matched(d)'
      BY <2>1, <2>2, <3>1, <3>2, MatchedStays DEF MatchedInv
    <3> QED BY <1>2, <2>1, <3>1, <3>3 DEF MatchedInv
  <2>3. ASSUME NEW chunk \in ResponseChunks(c), answered' = Set(answered, c, answered[c] + Len(chunk)),
               rch' = Offer(rch, c, chunk), Loses(c, ~HasRoom(rch, c))
        PROVE  MatchedInv'
    <3>1. chunk \in Chunks /\ answered[c] \in Nat /\ Head(chunk) \in {answered[c] + 1} \cup {}
      <4>1. answered[c] \in Nat /\ chunk \in {<<answered[c] + 1>>, <<answered[c] + 1, answered[c] + 2>>}
        BY <1>1 DEF CopiesOK, ResponseChunks
      <4>2. answered[c] + 1 \in Int /\ answered[c] + 2 \in Int
        BY <4>1
      <4> QED BY <4>1, <4>2, ShortChunks
    <3>2. /\ torn' \in [Conns -> BOOLEAN] /\ (\A d \in Conns : ~torn'[d] => ~torn[d])
          /\ ~torn'[c] => HasRoom(rch, c)
      <4>1. HasRoom(rch, c) \in BOOLEAN
        BY DEF HasRoom
      <4> QED BY <1>2, <2>3, <4>1, LosesMarks
    <3>3. /\ answered'[c] = answered[c] + Len(chunk)
          /\ HasRoom(rch, c) => rch'[c] = Append(rch[c], chunk)
          /\ \A d \in Conns : d # c => answered'[d] = answered[d] /\ rch'[d] = rch[d]
      BY <1>1, <2>3 DEF Set, Offer, HasRoom, CopiesOK
    <3>4. ASSUME NEW d \in Conns, d # c  PROVE Matched(d)'
      BY <2>1, <3>2, <3>3, <3>4, UntouchedStays DEF Untouched, MatchedInv
    <3>5. Matched(c)'
      <4>1. Matched(c)
        BY DEF MatchedInv
      <4>2. ASSUME ~torn'[c], rs[c] \notin {"drain", "done"}
            PROVE  Numbered(rch'[c], ResponsesRead(c), answered'[c], {})
        <5>1. Numbered(rch[c], ResponsesRead(c), answered[c], {})
          BY <3>2, <4>1, <4>2 DEF Matched, InStep
        <5>2. rch[c] \in Seq(Chunks) /\ ResponsesRead(c) \in Int
          BY <1>1 DEF CopiesOK, ReadersOK, ResponsesRead
        <5>3. PICK other, s, n, total :
                other = {} /\ s = rch[c] /\ n = ResponsesRead(c) /\ total = answered[c]
          OBVIOUS
        <5>4. /\ s \in Seq(Chunks) /\ n \in Int /\ total \in Int
              /\ Numbered(s, n, total, other) /\ Head(chunk) \in {total + 1} \cup other
          BY <3>1, <5>1, <5>2, <5>3
        <5>5. Numbered(Append(s, chunk), n, total + Len(chunk), other)
          BY <3>1, <5>4, NumberedOffer
        <5> QED BY <3>2, <3>3, <4>2, <5>3, <5>5
      <4> QED BY <2>1, <3>2, <3>3, <4>1, <4>2 DEF Matched, InStep, ResponsesRead
    <3> QED BY <1>2, <2>1, <3>2, <3>4, <3>5 DEF MatchedInv
  <2> QED BY <2>1, <2>2, <2>3
<1> QED BY <1>3, <1>4, <1>5, <1>6, <1>7

\* readRequests and readResponses: a response is read for the request that it answers.
LEMMA ReadersKeepCounts ==
    ASSUME IndInv, MatchedInv, NEW c \in Conns, Readers(c)
    PROVE  MatchedInv'
<1>1. CopiesOK /\ ReadersOK
  BY DEF IndInv, UpdatesInv
<1>2. /\ up \in [Conns -> {"off", "read", "write", "ended"}] /\ torn \in [Conns -> BOOLEAN]
      /\ \A d \in Conns : Matched(d)
  BY DEF MatchedInv
<1>3. /\ UNCHANGED <<up, sent, answered>>
      /\ rq[c] # "off" \/ rs[c] # "off"
  BY DEF Readers, ReadRequest, RequestsEnd, HandOver, TellRequest, ReadResponse, ResponseMissing,
         TellResponse, ResponsesEnd, DrainRequests, DrainResponses, DrainEnds, traffic
<1>4. up[c] # "off"
  BY <1>2, <1>3 DEF Matched
<1>5. CASE ReadRequest(c)
  <2> DEFINE chunk == Head(wch[c])
             n == Len(txns[c])
  <2>1. /\ rq[c] = "read" /\ wch[c] # <<>> /\ UNCHANGED <<rch, rs, at>>
        /\ wch' = TakeChunk(wch, c)
    BY <1>5 DEF ReadRequest
  <2>2. /\ chunk \in Chunks /\ Head(chunk) \in Int /\ wch[c] \in Seq(Chunks) /\ n \in Nat
    <3>1. chunk \in Chunks
      BY <1>1, <2>1 DEF CopiesOK
    <3> QED BY <1>1, <3>1 DEF CopiesOK, ReadersOK, Chunks
  <2>3. /\ \A d \in Conns : d # c => wch'[d] = wch[d]
        /\ wch'[c] = Tail(wch[c])
    BY <1>1, <2>1, TakeChunkTails DEF CopiesOK
  <2>4. CASE rq' = Set(rq, c, "done") /\ Loses(c, TRUE) /\ UNCHANGED txns
    <3>1. /\ torn' \in [Conns -> BOOLEAN] /\ torn'[c] /\ \A d \in Conns : ~torn'[d] => ~torn[d]
      BY <1>2, <2>4, LosesMarks
    <3>2. rq'[c] = "done" /\ \A d \in Conns : d # c => rq'[d] = rq[d]
      BY <1>1, <2>4 DEF Set, ReadersOK
    <3>3. ASSUME NEW d \in Conns  PROVE Matched(d)'
      BY <1>2, <1>3, <1>4, <2>1, <2>3, <2>4, <3>1, <3>2, MatchedStays
    <3> QED BY <1>2, <1>3, <3>1, <3>3 DEF MatchedInv
  <2>5. CASE /\ Head(chunk) # Frame
             /\ txns' = Set(txns, c, Append(txns[c], Txn(Head(chunk))))
             /\ rq' = Set(rq, c, "hand") /\ Loses(c, Len(chunk) > 1)
    <3>1. /\ torn' \in [Conns -> BOOLEAN] /\ (\A d \in Conns : ~torn'[d] => ~torn[d])
          /\ ~torn'[c] => Len(chunk) = 1
      <4>1. Len(chunk) \in Nat \ {0}
        BY <2>2 DEF Chunks
      <4>2. (Len(chunk) > 1) \in BOOLEAN
        BY <4>1
      <4>3. /\ torn' \in [Conns -> BOOLEAN] /\ (\A d \in Conns : ~torn'[d] => ~torn[d])
            /\ ~torn'[c] => ~(Len(chunk) > 1)
        BY <1>2, <2>5, <4>2, LosesMarks
      <4> HIDE DEF chunk
      <4>4. ~(Len(chunk) > 1) => Len(chunk) = 1
        BY <4>1
      <4> QED BY <4>3, <4>4, Zenon
    <3>2. /\ rq'[c] = "hand" /\ \A d \in Conns : d # c => rq'[d] = rq[d] /\ txns'[d] = txns[d]
      BY <1>1, <2>5 DEF Set, ReadersOK
    <3>3. PICK x, y, t : x = txns[c] /\ y = Head(chunk) /\ t = Txn(y)
      OBVIOUS
    <3>4. x \in Seq(Transactions) /\ n = Len(x) /\ t.req = y /\ t.resp = NoResponse /\ t \in Transactions
      BY <1>1, <2>2, <3>3 DEF ReadersOK, Txn, Transactions, NoResponse
    <3>5. txns'[c] = Append(x, t)
      BY <1>1, <2>5, <3>3 DEF Set, ReadersOK
    <3>6. /\ Len(txns'[c]) = n + 1 /\ txns'[c][n + 1] = t
          /\ \A k \in 1..n : txns'[c][k] = txns[c][k]
      BY <3>3, <3>4, <3>5
    <3>7. ASSUME NEW d \in Conns, d # c  PROVE Matched(d)'
      BY <1>2, <1>3, <2>1, <2>3, <3>1, <3>2, <3>7, UntouchedStays DEF Untouched
    <3>8. ASSUME ~torn'[c], rs[c] \notin {"drain", "done"}
          PROVE  InStep(c)'
      <4>1. InStep(c)
        BY <1>2, <3>1, <3>8 DEF Matched
      <4>2. PICK s, total, other : s = wch[c] /\ total = sent[c] /\ other = {Frame}
        OBVIOUS
      <4>3. Numbered(s, n, total, other) /\ s \in Seq(Chunks) /\ total \in Int /\ s # <<>> /\ n \in Int
        BY <1>1, <2>1, <2>2, <4>1, <4>2 DEF InStep, CopiesOK
      <4>4. /\ Head(Head(s)) \in {n + 1} \cup other
            /\ Len(Head(s)) = 1 => Numbered(Tail(s), n + 1, total, other)
        BY <4>3, NumberedTake
      <4>5. y = n + 1 /\ Numbered(Tail(wch[c]), n + 1, sent[c], {Frame})
        BY <2>5, <3>1, <3>3, <3>8, <4>2, <4>4
      <4>6. \A k \in 1..(n + 1) : txns'[c][k].req = k
        <5>1. \A k \in 1..(n + 1) : k = n + 1 \/ k \in 1..n
          BY <2>2
        <5> QED BY <3>4, <3>6, <4>1, <4>5, <5>1 DEF InStep
      <4>7. at'[c] = (n + 1) - 1
        BY <2>1, <2>2, <4>1 DEF InStep
      <4>8. Numbered(rch'[c], ResponsesRead(c)', answered'[c], {})
        BY <1>3, <2>1, <4>1 DEF InStep, ResponsesRead
      <4> HIDE DEF n, chunk
      <4> QED BY <1>3, <2>3, <3>2, <3>6, <4>5, <4>6, <4>7, <4>8 DEF InStep
    <3>9. ASSUME ~torn'[c], NEW k \in 1..Len(txns'[c])
          PROVE  txns'[c][k].resp \in {NoResponse, txns'[c][k].req}
      <4>1. k = n + 1 \/ k \in 1..n
        BY <2>2, <3>6
      <4> QED BY <1>2, <3>1, <3>4, <3>6, <3>9, <4>1 DEF Matched
    <3>10. Matched(c)'
      BY <1>3, <1>4, <2>1, <3>8, <3>9 DEF Matched
    <3> QED BY <1>2, <1>3, <3>1, <3>7, <3>10 DEF MatchedInv
  <2> QED BY <1>5, <2>4, <2>5 DEF ReadRequest
<1>6. CASE RequestsEnd(c) \/ ResponseMissing(c) \/ ResponsesEnd(c) \/ DrainEnds(c)
  <2>1. /\ UNCHANGED <<wch, rch, txns, at, torn>>
        /\ rq'[c] = "hand" <=> rq[c] = "hand"
        /\ rs'[c] = rs[c] \/ rs'[c] = "done"
        /\ \A d \in Conns : d # c => rq'[d] = rq[d] /\ rs'[d] = rs[d]
    BY <1>1, <1>6 DEF RequestsEnd, ResponseMissing, ResponsesEnd, DrainEnds, Set, ReadersOK, tee
  <2>2. ASSUME NEW d \in Conns  PROVE Matched(d)'
    BY <1>2, <1>3, <1>4, <2>1, MatchedStays
  <2> QED BY <1>2, <1>3, <2>1, <2>2 DEF MatchedInv
<1>7. CASE HandOver(c)
  <2>1. /\ UNCHANGED <<wch, rch, txns, torn>> /\ rq[c] = "hand" /\ rs[c] = "range"
        /\ rq'[c] = "tell" /\ rs'[c] = "read" /\ at'[c] = Len(txns[c])
        /\ \A d \in Conns : d # c => rq'[d] = rq[d] /\ rs'[d] = rs[d] /\ at'[d] = at[d]
    BY <1>1, <1>7 DEF HandOver, Set, ReadersOK, tee
  <2>2. ASSUME NEW d \in Conns, d # c  PROVE Matched(d)'
    BY <1>2, <1>3, <2>1, <2>2, UntouchedStays DEF Untouched
  <2>3. Matched(c)'
    <3>1. Matched(c) /\ Len(txns[c]) \in Nat
      BY <1>1, <1>2 DEF ReadersOK
    <3>2. ASSUME ~torn[c]  PROVE InStep(c)'
      <4>1. InStep(c)
        BY <2>1, <3>1, <3>2 DEF Matched
      <4>2. ResponsesRead(c)' = ResponsesRead(c) /\ at'[c] = Len(txns[c]) - 0
        BY <2>1, <3>1, <4>1 DEF ResponsesRead, InStep
      <4> QED BY <1>3, <2>1, <4>1, <4>2 DEF InStep
    <3> QED BY <1>3, <1>4, <2>1, <3>1, <3>2 DEF Matched
  <2> QED BY <1>2, <1>3, <2>1, <2>2, <2>3 DEF MatchedInv
<1>8. CASE TellRequest(c) \/ TellResponse(c)
  <2>1. /\ UNCHANGED <<wch, rch, txns, at>>
        /\ rq'[c] = "hand" <=> rq[c] = "hand"
        /\ rs'[c] = rs[c] \/ (rs[c] = "tell" /\ rs'[c] \in {"drain", "range"})
        /\ \A d \in Conns : d # c => rq'[d] = rq[d] /\ rs'[d] = rs[d]
    BY <1>1, <1>8 DEF TellRequest, TellResponse, Set, ReadersOK, tee
  <2>2. torn' \in [Conns -> BOOLEAN] /\ \A d \in Conns : ~torn'[d] => ~torn[d]
    <3>1. UNCHANGED torn \/ Loses(c, TRUE)
      BY <1>8 DEF TellRequest, TellResponse, Publish
    <3> QED BY <1>2, <3>1, LosesMarks
  <2>3. ASSUME NEW d \in Conns  PROVE Matched(d)'
    BY <1>2, <1>3, <1>4, <2>1, <2>2, MatchedStays
  <2> QED BY <1>2, <1>3, <2>2, <2>3 DEF MatchedInv
<1>9. CASE ReadResponse(c)
  <2> DEFINE chunk == Head(rch[c])
             n == at[c]
  <2>1. /\ rs[c] = "read" /\ rch[c] # <<>> /\ UNCHANGED <<wch, rq, at>>
        /\ rch' = TakeChunk(rch, c)
    BY <1>9 DEF ReadResponse
  <2>2. chunk \in Chunks /\ Head(chunk) \in Int /\ rch[c] \in Seq(Chunks) /\ n \in 1..Len(txns[c])
    <3>1. chunk \in Chunks
      BY <1>1, <2>1 DEF CopiesOK
    <3> QED BY <1>1, <2>1, <3>1 DEF CopiesOK, ReadersOK, Chunks
  <2>3. /\ \A d \in Conns : d # c => rch'[d] = rch[d]
        /\ rch'[c] = Tail(rch[c])
    BY <1>1, <2>1, TakeChunkTails DEF CopiesOK
  <2>4. CASE rs' = Set(rs, c, "done") /\ UNCHANGED <<txns, torn>>
    <3>1. rs'[c] = "done" /\ \A d \in Conns : d # c => rs'[d] = rs[d]
      BY <1>1, <2>4 DEF Set, ReadersOK
    <3>2. ASSUME NEW d \in Conns  PROVE Matched(d)'
      BY <1>2, <1>3, <1>4, <2>1, <2>3, <2>4, <3>1, MatchedStays
    <3> QED BY <1>2, <1>3, <2>4, <3>2 DEF MatchedInv
  <2>5. CASE /\ txns' = [txns EXCEPT ![c][at[c]].resp = Head(chunk)]
             /\ rs' = Set(rs, c, "tell") /\ Loses(c, Len(chunk) > 1)
    <3>1. /\ torn' \in [Conns -> BOOLEAN] /\ (\A d \in Conns : ~torn'[d] => ~torn[d])
          /\ ~torn'[c] => Len(chunk) = 1
      <4>1. Len(chunk) \in Nat \ {0}
        BY <2>2 DEF Chunks
      <4>2. (Len(chunk) > 1) \in BOOLEAN
        BY <4>1
      <4>3. /\ torn' \in [Conns -> BOOLEAN] /\ (\A d \in Conns : ~torn'[d] => ~torn[d])
            /\ ~torn'[c] => ~(Len(chunk) > 1)
        BY <1>2, <2>5, <4>2, LosesMarks
      <4> HIDE DEF chunk
      <4>4. ~(Len(chunk) > 1) => Len(chunk) = 1
        BY <4>1
      <4> QED BY <4>3, <4>4, Zenon
    <3>2. rs'[c] = "tell" /\ \A d \in Conns : d # c => rs'[d] = rs[d]
      BY <1>1, <2>5 DEF Set, ReadersOK
    <3>3. PICK y : y = Head(chunk)
      OBVIOUS
    <3>4. Responds(c, n, y) /\ y \in Int
      BY <2>2, <2>5, <3>3 DEF Responds
    <3>5. /\ \A d \in Conns : Len(txns'[d]) = Len(txns[d])
          /\ \A d \in Conns : \A m \in 1..Len(txns[d]) :
                /\ txns'[d][m].req = txns[d][m].req
                /\ txns'[d][m].resp = IF d = c /\ m = n THEN y ELSE txns[d][m].resp
      <4> HIDE DEF n, chunk
      <4> QED BY <1>1, <2>2, <3>4, RespWritten
    <3>6. ASSUME NEW d \in Conns, d # c  PROVE Matched(d)'
      BY <1>2, <1>3, <2>1, <2>3, <3>1, <3>2, <3>5, <3>6, MatchedStays
    <3>7. ASSUME ~torn'[c]
          PROVE  InStep(c)' /\ txns[c][n].req = y
      <4>1. InStep(c)
        BY <1>2, <2>1, <3>1, <3>7 DEF Matched
      <4>2. PICK s, total, other, m : s = rch[c] /\ total = answered[c] /\ other = {} /\ m = n - 1
        OBVIOUS
      <4>0. ResponsesRead(c) = m /\ m \in Int
        BY <2>1, <2>2, <4>2 DEF ResponsesRead
      <4>3. Numbered(s, m, total, other) /\ s \in Seq(Chunks) /\ total \in Int /\ s # <<>>
        <5>1. Numbered(rch[c], ResponsesRead(c), answered[c], {})
          BY <4>1 DEF InStep
        <5> QED BY <1>1, <2>1, <4>0, <4>2, <5>1 DEF CopiesOK
      <4>4. /\ Head(Head(s)) \in {m + 1} \cup other
            /\ Len(Head(s)) = 1 => Numbered(Tail(s), m + 1, total, other)
        BY <4>0, <4>3, NumberedTake
      <4>5. m + 1 = n
        BY <2>2, <4>2
      <4>6. y = n /\ Numbered(Tail(rch[c]), n, answered[c], {})
        BY <3>1, <3>3, <3>7, <4>2, <4>4, <4>5
      <4>7. Numbered(rch'[c], ResponsesRead(c)', answered'[c], {})
        BY <1>3, <2>1, <2>3, <3>2, <4>6 DEF ResponsesRead
      <4>8. txns[c][n].req = n
        BY <2>2, <4>1 DEF InStep
      <4>9. \A k \in 1..Len(txns'[c]) : txns'[c][k].req = k
        BY <3>5, <4>1 DEF InStep
      <4>10. InStep(c)'
        BY <1>3, <2>1, <3>5, <4>1, <4>7, <4>9 DEF InStep
      <4> QED BY <4>6, <4>8, <4>10
    <3>8. ASSUME ~torn'[c], NEW k \in 1..Len(txns'[c])
          PROVE  txns'[c][k].resp \in {NoResponse, txns'[c][k].req}
      <4>1. k \in 1..Len(txns[c]) /\ txns[c][k].resp \in {NoResponse, txns[c][k].req}
        BY <1>2, <3>1, <3>5, <3>8 DEF Matched
      <4> HIDE DEF n, chunk
      <4> QED BY <3>5, <3>7, <3>8, <4>1
    <3>9. Matched(c)'
      BY <1>3, <1>4, <3>7, <3>8 DEF Matched
    <3> QED BY <1>2, <1>3, <3>1, <3>6, <3>9 DEF MatchedInv
  <2> QED BY <1>9, <2>4, <2>5 DEF ReadResponse
<1>10. CASE DrainRequests(c) \/ DrainResponses(c)
  <2>1. /\ UNCHANGED <<rq, rs, txns, at, torn>> /\ rs[c] = "drain"
        /\ \A d \in Conns : d # c => wch'[d] = wch[d] /\ rch'[d] = rch[d]
    <3>1. CASE DrainRequests(c)
      BY <1>1, <3>1 DEF DrainRequests, TakeChunk, Set, CopiesOK, readers
    <3>2. CASE DrainResponses(c)
      BY <1>1, <3>2 DEF DrainResponses, TakeChunk, Set, CopiesOK, readers
    <3> QED BY <1>10, <3>1, <3>2
  <2>2. ASSUME NEW d \in Conns  PROVE Matched(d)'
    BY <1>2, <1>3, <1>4, <2>1, MatchedStays
  <2> QED BY <1>2, <1>3, <2>1, <2>2 DEF MatchedInv
<1> QED BY <1>5, <1>6, <1>7, <1>8, <1>9, <1>10 DEF Readers

\* The view marks what it has shown, and no more.
LEMMA ViewKeepsCounts ==
    ASSUME IndInv, MatchedInv, UpdateHttp
    PROVE  MatchedInv'
<1>1. CopiesOK /\ ReadersOK
  BY DEF IndInv, UpdatesInv
<1>2. /\ up \in [Conns -> {"off", "read", "write", "ended"}] /\ torn \in [Conns -> BOOLEAN]
      /\ \A d \in Conns : Matched(d)
  BY DEF MatchedInv
<1>3. UNCHANGED <<up, sent, answered, wch, rch, rq, rs, at>>
  BY DEF UpdateHttp, UpdateNew, AddToRing, UpdateKnown, traffic, tee, readers
<1> DEFINE Marked == torn' \in [Conns -> BOOLEAN] /\ \A d \in Conns : ~torn'[d] => ~torn[d]
           Shown ==
                \A d \in Conns :
                    /\ Len(txns'[d]) = Len(txns[d])
                    /\ \A k \in 1..Len(txns[d]) :
                        txns'[d][k].req = txns[d][k].req /\ txns'[d][k].resp = txns[d][k].resp
<1>4. Marked /\ Shown
  <2>1. CASE UNCHANGED <<txns, torn>>
    BY <1>2, <2>1
  <2>2. ASSUME UpdateNew \/ UpdateKnown
        PROVE  Marked /\ Shown
    <3>1. queue \in Seq(Ids) /\ queue # <<>>
      BY <1>1, <2>2 DEF UpdateNew, UpdateKnown, ReadersOK
    <3>2. PICK c, k : c = Head(queue)[1] /\ k = Head(queue)[2]
      OBVIOUS
    <3>3. Head(queue) \in Ids /\ Head(queue) = queue[1] /\ 1 \in 1..Len(queue)
      BY <3>1
    <3>4. Head(queue) = <<c, k>> /\ c \in Conns /\ k \in 1..Len(txns[c])
      BY <1>1, <3>2, <3>3 DEF ReadersOK, Ids
    <3>5. \/ UNCHANGED torn /\ \E w \in {"request", "response"} : Shows(<<c, k>>, w)
          \/ Loses(c, TRUE) /\ UNCHANGED txns
      BY <2>2, <3>2, <3>4 DEF UpdateNew, UpdateKnown
    <3>6. CASE Loses(c, TRUE) /\ UNCHANGED txns
      <4>1. Marked
        BY <1>2, <3>4, <3>6, LosesMarks
      <4> QED BY <3>6, <4>1
    <3>7. CASE UNCHANGED torn /\ \E w \in {"request", "response"} : Shows(<<c, k>>, w)
      <4>1. Shown
        BY <1>1, <3>4, <3>7, ShownWritten
      <4>2. Marked
        BY <1>2, <3>7
      <4> QED BY <4>1, <4>2
    <3> QED BY <3>5, <3>6, <3>7
  <2> QED BY <2>1, <2>2 DEF UpdateHttp, AddToRing, readers
<1>5. ASSUME NEW d \in Conns  PROVE Matched(d)'
  BY <1>2, <1>3, <1>4, MatchedStays
<1> QED BY <1>2, <1>3, <1>4, <1>5 DEF MatchedInv

\* The counts are kept by every step.
LEMMA MatchedInvariant == Spec => []MatchedInv
<1>1. Init => MatchedInv
  <2> SUFFICES ASSUME Init  PROVE MatchedInv
    OBVIOUS
  <2>1. ASSUME NEW c \in Conns
        PROVE  /\ up[c] = "off" /\ rq[c] = "off" /\ rs[c] = "off" /\ txns[c] = <<>> /\ at[c] = 0
               /\ wch[c] = <<>> /\ rch[c] = <<>> /\ sent[c] = 0 /\ answered[c] = 0
    BY DEF Init
  <2>2. Numbered(<<>>, 0, 0, {}) /\ Numbered(<<>>, 0, 0, {Frame})
    BY DEF Numbered
  <2>3. ASSUME NEW c \in Conns  PROVE Matched(c)
    <3>1. Len(txns[c]) = 0 /\ ResponsesRead(c) = 0
      BY <2>1 DEF ResponsesRead
    <3> QED BY <2>1, <2>2, <3>1 DEF Matched, InStep
  <2> QED BY <2>3 DEF Init, MatchedInv
<1>2. IndInv /\ MatchedInv /\ [Next]_vars => MatchedInv'
  <2> SUFFICES ASSUME IndInv, MatchedInv, [Next]_vars  PROVE MatchedInv'
    OBVIOUS
  <2>1. CASE UNCHANGED vars
    <3>1. UNCHANGED <<up, rq, rs, at, txns, wch, rch, sent, answered, torn>>
      BY <2>1 DEF vars, traffic, tee, readers
    <3> QED BY <3>1, UntouchedStays DEF MatchedInv, Untouched
  <2>2. ASSUME NEW t \in idToTxn, Replay(t)  PROVE MatchedInv'
    <3>1. PICK c \in Conns :
            /\ Wraps(c) /\ up' = Set(up, c, "write")
            /\ UNCHANGED <<sent, answered, interim, wch, rch, txns, at, queue, web, torn>>
      BY <2>2 DEF Replay, Conns
    <3> QED BY <3>1, CopiersKeepCounts
  <2> QED BY <2>1, <2>2, CopiersKeepCounts, ReadersKeepCounts, ViewKeepsCounts DEF Next
<1> QED BY <1>1, <1>2, Invariant, PTL DEF Spec

(***************************************************************************)
(* However the copies are cut into chunks, dropped and read, a response    *)
(* that the view has is the one to the request it has it under             *)
(* (http.go:103-113), as long as the copy of that connection is whole.     *)
(***************************************************************************)
THEOREM ResponsesAreNotMixedUp == Spec => []ResponsesFindTheirRequests
<1>1. MatchedInv => ResponsesFindTheirRequests
  BY DEF MatchedInv, Matched, ResponsesFindTheirRequests
<1> QED BY <1>1, MatchedInvariant, PTL

=============================================================================
