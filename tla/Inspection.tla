----------------------------- MODULE Inspection -----------------------------
(***************************************************************************)
(* HTTP inspection in the client: the copies of the traffic that conn.Tee  *)
(* makes of a joined connection (conn/tee.go, Join in conn/conn.go), the   *)
(* two goroutines that read requests and responses out of them             *)
(* (proto/http.go), and the web view that keeps the last of them and       *)
(* replays them (client/views/web, util/ring.go).                          *)
(*                                                                         *)
(* A message is a request or response number, Interim (a 1xx response) or  *)
(* Frame (of a web socket); a chunk is what one Read or Write carries.     *)
(* The goroutine between a Tee's channel and its pipe is left out: it      *)
(* holds one chunk, so TeeBuffer stands for one more than teeBufferSize.   *)
(* The broadcast goroutine gives an update to the view's channel or drops  *)
(* it, and the sender goes on, in one step.                                *)
(***************************************************************************)
EXTENDS Integers, Sequences

CONSTANTS
    Visitors,       \* connections that a proxy goroutine joins
    Replays,        \* connections that PlayRequest makes
    TeeBuffer,      \* teeBufferSize
    ListenerBuffer, \* broadcastListenerBuffer
    RingCapacity,   \* NewRing(20)
    Scripts         \* bounds: what visitors and local servers do, [requests: messages of a visitor,
                    \* upgrades: the requests for a web socket, pipelined, interim, replayed: BOOLEAN]

ASSUME InspectionAssumption ==
    /\ Visitors \cap Replays = {}
    /\ {TeeBuffer, ListenerBuffer, RingCapacity} \subseteq Nat \ {0}

Conns == Visitors \cup Replays
Interim == 0
Frame == -1
NoResponse == -2

VARIABLES
    script,         \* one of Scripts
    up,             \* [Conns -> the copier from the visitor, or PlayRequest]
    down,           \* [Conns -> the copier from the local server, or io.ReadAll]
    open,           \* [Conns -> whether both ends are open]
    sent, answered, \* [Conns -> requests written to the local server, responses read of it]
    interim,        \* [Conns -> whether there was a 1xx response]
    wch, rch,       \* [Conns -> the channels of the writePipe and the readPipe]
    wopen, ropen,   \* [Conns -> whether the pipe is open]
    rq, rs,         \* [Conns -> readRequests, readResponses]
    txns,           \* [Conns -> the HttpTxns, in the order of readRequests]
    at,             \* [Conns -> the txn readResponses has]
    queue,          \* the view's channel of httpProto.Txns
    view,           \* updateHttp: "select", or "add" while it holds idToTxnLock
    adding,         \* the txn it adds
    ring, idToTxn,  \* HttpRequests, and the txns that can be replayed
    torn            \* [Conns -> observed: something of the copy is lost or misread]

traffic == <<script, up, down, open, sent, answered, interim>>
tee == <<wch, rch, wopen, ropen>>
readers == <<rq, rs, txns, at>>
web == <<view, adding, ring, idToTxn>>
vars == <<traffic, tee, readers, queue, web, torn>>

Init ==
    /\ script \in Scripts
    /\ up = [c \in Conns |-> "off"] /\ down = up /\ open = [c \in Conns |-> FALSE]
    /\ sent = [c \in Conns |-> 0] /\ answered = sent /\ interim = open
    /\ wch = [c \in Conns |-> <<>>] /\ rch = wch
    /\ wopen = open /\ ropen = open
    /\ rq = up /\ rs = up /\ txns = [c \in Conns |-> <<>>] /\ at = sent
    /\ queue = <<>> /\ view = "select" /\ adding = <<>> /\ ring = <<>> /\ idToTxn = {}
    /\ torn = open

TypeOK ==
    /\ up \in [Conns -> {"off", "read", "write", "ended"}]
    /\ down \in [Conns -> {"off", "read", "write", "ended"}]
    /\ rq \in [Conns -> {"off", "read", "hand", "tell", "done"}]
    /\ rs \in [Conns -> {"off", "range", "read", "tell", "drain", "done"}]
    /\ \A c \in Conns : Len(wch[c]) <= TeeBuffer /\ Len(rch[c]) <= TeeBuffer
    /\ Len(queue) <= ListenerBuffer /\ Len(ring) <= RingCapacity + 1
    /\ view \in {"select", "add"}

Set(f, c, x) == [f EXCEPT ![c] = x]

-----------------------------------------------------------------------------
(* WrapConn, and the copiers of Join or the two calls of PlayRequest       *)

Wraps(c) ==
    /\ up[c] = "off" /\ UNCHANGED script
    /\ down' = Set(down, c, "read") /\ open' = Set(open, c, TRUE)
    /\ wopen' = Set(wopen, c, TRUE) /\ ropen' = Set(ropen, c, TRUE)
    /\ rq' = Set(rq, c, "read") /\ rs' = Set(rs, c, "range")

Join(c) ==
    /\ c \in Visitors /\ Wraps(c) /\ up' = Set(up, c, "read")
    /\ UNCHANGED <<sent, answered, interim, wch, rch, txns, at, queue, web, torn>>

\* the page asks for a txn: idToTxn is read under its lock, and the controller plays it
Replay(t) ==
    /\ t \in idToTxn /\ view = "select" /\ script.replayed
    /\ \E c \in Replays : Wraps(c) /\ up' = Set(up, c, "write")
    /\ UNCHANGED <<sent, answered, interim, wch, rch, txns, at, queue, web, torn>>

\* the copier has read a chunk of the visitor
VisitorSends(c) ==
    /\ up[c] = "read" /\ open[c] /\ sent[c] < script.requests
    /\ up' = Set(up, c, "write")
    /\ UNCHANGED <<script, down, open, sent, answered, interim, tee, readers, queue, web, torn>>

\* asyncPipeWriter.Write: a full channel drops the chunk
Offer(ch, c, chunk) == IF Len(ch[c]) < TeeBuffer THEN Set(ch, c, Append(ch[c], chunk)) ELSE ch
Loses(c, lost) == torn' = Set(torn, c, torn[c] \/ lost)
HasRoom(ch, c) == Len(ch[c]) < TeeBuffer

\* a chunk has one request, or two that are pipelined; after an upgrade it has frames
Upgraded(c) == \E n \in 1..sent[c] : n \in script.upgrades
RequestChunks(c) ==
    IF Upgraded(c) THEN {<<Frame>>}
    ELSE {<<sent[c] + 1>>} \cup
         IF c \in Visitors /\ script.pipelined /\ sent[c] + 2 <= script.requests
         THEN {<<sent[c] + 1, sent[c] + 2>>} ELSE {}

\* mutant: the tee waits for its reader
TeeWrite_Waits(c) ==
    /\ up[c] = "write" /\ open[c] /\ wch[c] = <<>> /\ rq[c] = "read"
    /\ \E chunk \in RequestChunks(c) :
        /\ sent' = Set(sent, c, sent[c] + Len(chunk))
        /\ wch' = Offer(wch, c, chunk) /\ Loses(c, FALSE)
    /\ up' = Set(up, c, IF c \in Visitors THEN "read" ELSE "ended")
    /\ UNCHANGED <<script, down, open, answered, interim, rch, wopen, ropen, readers, queue, web>>

TeeWrite(c) ==
    /\ up[c] = "write" /\ open[c]
    /\ \E chunk \in RequestChunks(c) :
        /\ sent' = Set(sent, c, sent[c] + Len(chunk))
        /\ wch' = Offer(wch, c, chunk) /\ Loses(c, ~HasRoom(wch, c))
    /\ up' = Set(up, c, IF c \in Visitors THEN "read" ELSE "ended")
    /\ UNCHANGED <<script, down, open, answered, interim, rch, wopen, ropen, readers, queue, web>>

\* asyncPipeWriter.Close: what is in the channel still is not delivered any more
CloseWritePipe(c) == wopen' = Set(wopen, c, FALSE)

TeeWriteFails(c) ==
    /\ up[c] = "write" /\ ~open[c]
    /\ up' = Set(up, c, "ended") /\ CloseWritePipe(c) /\ Loses(c, wch[c] # <<>>)
    /\ UNCHANGED <<script, down, open, sent, answered, interim, wch, rch, ropen, readers, queue, web>>

\* end of file from the visitor; Join's copier closes both connections
VisitorEnds(c) ==
    /\ up[c] = "read"
    /\ up' = Set(up, c, "ended") /\ open' = Set(open, c, FALSE)
    /\ UNCHANGED <<script, down, sent, answered, interim, tee, readers, queue, web, torn>>

ResponseChunks(c) ==
    {<<answered[c] + 1>>} \cup {<<answered[c] + 1, answered[c] + 2>>}

\* the local server's next chunk: responses, or one 1xx before a response
TeeRead(c) ==
    /\ down[c] = "read" /\ open[c]
    /\ \/ /\ \E chunk \in ResponseChunks(c) :
              /\ answered[c] + Len(chunk) <= sent[c]
              /\ answered' = Set(answered, c, answered[c] + Len(chunk))
              /\ rch' = Offer(rch, c, chunk)
          /\ Loses(c, ~HasRoom(rch, c)) /\ UNCHANGED interim
       \/ /\ script.interim /\ answered[c] < sent[c] /\ ~interim[c] /\ interim' = Set(interim, c, TRUE)
          /\ rch' = Offer(rch, c, <<Interim>>) /\ Loses(c, TRUE) /\ UNCHANGED answered
    /\ down' = Set(down, c, IF c \in Visitors THEN "write" ELSE "read")
    /\ UNCHANGED <<script, up, open, sent, wch, wopen, ropen, readers, queue, web>>

\* end of file, or the other copier has closed the connection
TeeReadEnds(c) ==
    /\ down[c] = "read"
    /\ down' = Set(down, c, "ended") /\ open' = Set(open, c, FALSE)
    /\ ropen' = Set(ropen, c, FALSE) /\ Loses(c, rch[c] # <<>>)
    /\ UNCHANGED <<script, up, sent, answered, interim, wch, rch, wopen, readers, queue, web>>

\* to the visitor
Delivers(c) ==
    /\ down[c] = "write"
    /\ down' = Set(down, c, IF open[c] THEN "read" ELSE "ended")
    /\ UNCHANGED <<script, up, open, sent, answered, interim, tee, readers, queue, web, torn>>

-----------------------------------------------------------------------------
(* readRequests and readResponses                                          *)

Txn(n) == [req |-> n, resp |-> NoResponse, shown |-> "no"]
TakeChunk(ch, c) == Set(ch, c, Tail(ch[c]))

\* http.ReadRequest: each has a buffer of its own, so what is behind the message is lost
ReadRequest(c) ==
    /\ rq[c] = "read" /\ wopen[c] /\ wch[c] # <<>>
    /\ LET chunk == Head(wch[c]) IN
        \/ /\ Head(chunk) # Frame
           /\ txns' = Set(txns, c, Append(txns[c], Txn(Head(chunk))))
           /\ rq' = Set(rq, c, "hand") /\ Loses(c, Len(chunk) > 1)
        \/ /\ Head(chunk) = Frame \/ torn[c]
           /\ rq' = Set(rq, c, "done") /\ Loses(c, TRUE) /\ UNCHANGED txns
    /\ wch' = TakeChunk(wch, c)
    /\ UNCHANGED <<traffic, rch, wopen, ropen, rs, at, queue, web>>

RequestsEnd(c) ==
    /\ rq[c] = "read" /\ ~wopen[c]
    /\ rq' = Set(rq, c, "done")
    /\ UNCHANGED <<traffic, tee, rs, txns, at, queue, web, torn>>

\* mutant: a request does not wait for the response before it
HandOver_Skips(c) ==
    /\ rq[c] = "hand" /\ rq' = Set(rq, c, "tell")
    /\ IF rs[c] = "range" THEN rs' = Set(rs, c, "read") /\ at' = Set(at, c, Len(txns[c]))
       ELSE UNCHANGED <<rs, at>>
    /\ UNCHANGED <<traffic, tee, txns, queue, web, torn>>

\* lastTxn <- txn, which nobody buffers
HandOver(c) ==
    /\ rq[c] = "hand" /\ rs[c] = "range"
    /\ rq' = Set(rq, c, "tell") /\ rs' = Set(rs, c, "read") /\ at' = Set(at, c, Len(txns[c]))
    /\ UNCHANGED <<traffic, tee, txns, queue, web, torn>>

\* h.Txns.In() <- txn
Publish(c, k) ==
    IF Len(queue) < ListenerBuffer THEN queue' = Append(queue, <<c, k>>) /\ UNCHANGED torn
    ELSE Loses(c, TRUE) /\ UNCHANGED queue

TellRequest(c) ==
    /\ rq[c] = "tell" /\ Publish(c, Len(txns[c]))
    /\ rq' = Set(rq, c, "read")
    /\ UNCHANGED <<traffic, tee, rs, txns, at, web>>

\* http.ReadResponse for the txn it has; an error ends it
ReadResponse(c) ==
    /\ rs[c] = "read" /\ ropen[c] /\ rch[c] # <<>>
    /\ LET chunk == Head(rch[c]) IN
        \/ /\ txns' = [txns EXCEPT ![c][at[c]].resp = Head(chunk)]
           /\ rs' = Set(rs, c, "tell") /\ Loses(c, Len(chunk) > 1)
        \/ torn[c] /\ rs' = Set(rs, c, "done") /\ UNCHANGED <<txns, torn>>
    /\ rch' = TakeChunk(rch, c)
    /\ UNCHANGED <<traffic, wch, wopen, ropen, rq, at, queue, web>>

\* mutant: the update is sent before the error is looked at
ResponseMissing_Told(c) ==
    /\ rs[c] = "read" /\ ~ropen[c]
    /\ rs' = Set(rs, c, "tell")
    /\ UNCHANGED <<traffic, tee, rq, txns, at, queue, web, torn>>

ResponseMissing(c) ==
    /\ rs[c] = "read" /\ ~ropen[c]
    /\ rs' = Set(rs, c, "done")
    /\ UNCHANGED <<traffic, tee, rq, txns, at, queue, web, torn>>

\* mutant: one response and no more
TellResponse_Once(c) ==
    /\ rs[c] = "tell" /\ Publish(c, at[c])
    /\ rs' = Set(rs, c, "done")
    /\ UNCHANGED <<traffic, tee, rq, txns, at, web>>

TellResponse(c) ==
    /\ rs[c] = "tell" /\ Publish(c, at[c])
    /\ rs' = Set(rs, c, IF txns[c][at[c]].req \in script.upgrades THEN "drain" ELSE "range")
    /\ UNCHANGED <<traffic, tee, rq, txns, at, web>>

\* lastTxn is closed
ResponsesEnd(c) ==
    /\ rs[c] = "range" /\ rq[c] = "done"
    /\ rs' = Set(rs, c, "done")
    /\ UNCHANGED <<traffic, tee, rq, txns, at, queue, web, torn>>

\* the shim for web sockets reads both copies until they end
DrainRequests(c) ==
    /\ rs[c] = "drain" /\ wch[c] # <<>> /\ wopen[c] /\ wch' = TakeChunk(wch, c)
    /\ UNCHANGED <<traffic, rch, wopen, ropen, readers, queue, web, torn>>

DrainResponses(c) ==
    /\ rs[c] = "drain" /\ rch[c] # <<>> /\ ropen[c] /\ rch' = TakeChunk(rch, c)
    /\ UNCHANGED <<traffic, wch, wopen, ropen, readers, queue, web, torn>>

DrainEnds(c) ==
    /\ rs[c] = "drain" /\ ~wopen[c] /\ ~ropen[c]
    /\ rs' = Set(rs, c, "done")
    /\ UNCHANGED <<traffic, tee, rq, txns, at, queue, web, torn>>

-----------------------------------------------------------------------------
(* WebHttpView.updateHttp and the ring                                     *)

TxnOf(t) == txns[t[1]][t[2]]
Shows(t, what) == txns' = [txns EXCEPT ![t[1]][t[2]].shown = what]

\* the first update of a txn: UserCtx is nil.  DumpRequestOut may fail.
UpdateNew ==
    /\ view = "select" /\ queue # <<>> /\ TxnOf(Head(queue)).shown = "no"
    /\ LET t == Head(queue) IN
        \/ /\ Shows(t, "request") /\ idToTxn' = idToTxn \cup {t}
           /\ view' = "add" /\ adding' = t /\ UNCHANGED torn
        \/ Loses(t[1], TRUE) /\ UNCHANGED <<txns, idToTxn, view, adding>>
    /\ queue' = Tail(queue)
    /\ UNCHANGED <<traffic, tee, rq, rs, at, ring>>

\* mutant: what falls out of the ring stays in the map
AddToRing_KeepsOld ==
    /\ view = "add" /\ view' = "select"
    /\ ring' = <<adding>> \o SubSeq(ring, 1, Len(ring) - (Len(ring) \div RingCapacity))
    /\ UNCHANGED <<traffic, tee, readers, queue, adding, idToTxn, torn>>

\* HttpRequests.Add, and what falls out of the ring cannot be replayed any more
AddToRing ==
    /\ view = "add" /\ view' = "select"
    /\ LET full == Len(ring) = RingCapacity IN
        /\ ring' = <<adding>> \o (IF full THEN SubSeq(ring, 1, Len(ring) - 1) ELSE ring)
        /\ idToTxn' = IF full THEN idToTxn \ {ring[Len(ring)]} ELSE idToTxn
    /\ UNCHANGED <<traffic, tee, readers, queue, adding, torn>>

\* the next one: the response, which goes to the open pages.  DumpResponse may fail.
UpdateKnown ==
    /\ view = "select" /\ queue # <<>> /\ TxnOf(Head(queue)).shown # "no"
    /\ LET t == Head(queue) IN
        \/ Shows(t, "response") /\ UNCHANGED torn
        \/ Loses(t[1], TRUE) /\ UNCHANGED txns
    /\ queue' = Tail(queue)
    /\ UNCHANGED <<traffic, tee, rq, rs, at, web>>

-----------------------------------------------------------------------------
Readers(c) ==
    \/ ReadRequest(c) \/ RequestsEnd(c) \/ HandOver(c) \/ TellRequest(c)
    \/ ReadResponse(c) \/ ResponseMissing(c) \/ TellResponse(c) \/ ResponsesEnd(c)
    \/ DrainRequests(c) \/ DrainResponses(c) \/ DrainEnds(c)

UpdateHttp == UpdateNew \/ AddToRing \/ UpdateKnown

Next ==
    \/ \E c \in Conns :
        \/ Join(c) \/ VisitorSends(c) \/ TeeWrite(c) \/ TeeWriteFails(c) \/ VisitorEnds(c)
        \/ TeeRead(c) \/ TeeReadEnds(c) \/ Delivers(c) \/ Readers(c)
    \/ \E t \in idToTxn : Replay(t)
    \/ UpdateHttp

Spec == Init /\ [][Next]_vars

(***************************************************************************)
(* The Go scheduler runs every goroutine that can run, and a chunk that a  *)
(* copier has read is written.  Visitors and local servers do what they    *)
(* like; a connection that is closed is noticed.                           *)
(***************************************************************************)
Fairness ==
    /\ \A c \in Conns :
        /\ WF_vars(TeeWrite(c) \/ TeeWriteFails(c)) /\ WF_vars(Delivers(c))
        /\ WF_vars(~open[c] /\ (VisitorEnds(c) \/ TeeReadEnds(c)))
        /\ WF_vars(ReadRequest(c)) /\ WF_vars(RequestsEnd(c))
        /\ WF_vars(HandOver(c)) /\ WF_vars(TellRequest(c))
        /\ WF_vars(ReadResponse(c)) /\ WF_vars(ResponseMissing(c)) /\ WF_vars(TellResponse(c))
        /\ WF_vars(ResponsesEnd(c) \/ DrainRequests(c) \/ DrainResponses(c) \/ DrainEnds(c))
    /\ WF_vars(UpdateHttp)

FairSpec == Spec /\ Fairness

-----------------------------------------------------------------------------
(***************************************************************************)
(* A txn whose response updateHttp is about to read has one: the response  *)
(* may overtake its request on the way to the view (http.go:116-117), and  *)
(* either update may be dropped.  Without a response updateHttp would      *)
(* panic, and ctl.Go shut the client down.                                 *)
(***************************************************************************)
KnownTxnsHaveResponses ==
    \A i \in 1..Len(queue) :
        LET t == queue[i] IN
        TxnOf(t).shown # "no" \/ (\E j \in 1..(i - 1) : queue[j] = t) =>
            TxnOf(t).resp # NoResponse

(***************************************************************************)
(* The view shows under a request the response to that request, unless     *)
(* bytes of the copy are lost ("best-effort", tee.go:59) or the response   *)
(* is a 1xx one (http.ReadResponse returns it like any other).             *)
(***************************************************************************)
ResponsesFindTheirRequests ==
    \A c \in Conns : ~torn[c] =>
        \A k \in 1..Len(txns[c]) : txns[c][k].resp \in {NoResponse, txns[c][k].req}

(***************************************************************************)
(* While idToTxnLock is free, what the page lists is what it can replay:   *)
(* the ring and the map have the same txns, no more than the ring holds,   *)
(* each once.                                                              *)
(***************************************************************************)
ListedIsReplayable ==
    view = "select" =>
        /\ idToTxn = {ring[i] : i \in 1..Len(ring)}
        /\ \A i, j \in 1..Len(ring) : ring[i] = ring[j] => i = j
        /\ Len(ring) <= RingCapacity

(***************************************************************************)
(* tee.go:59: "If consumers fall behind, inspection bytes are dropped      *)
(* instead of blocking real traffic".  What a copier has read, it passes   *)
(* on, whatever the readers and the view do.                               *)
(***************************************************************************)
TrafficIsNeverHeldUp ==
    \A c \in Conns : (up[c] = "write" ~> up[c] # "write") /\ (down[c] = "write" ~> down[c] # "write")

(***************************************************************************)
(* A response that the local server gave, and whose copy is not torn, is   *)
(* shown in the end: the two readers of a connection do not wait for each  *)
(* other for ever.                                                         *)
(***************************************************************************)
ResponsesAreShown ==
    \A c \in Conns, k \in 1..2 :
        answered[c] >= k /\ k - 1 \notin script.upgrades ~>
            torn[c] \/ (k <= Len(txns[c]) /\ txns[c][k].shown = "response")

(***************************************************************************)
(* docs/CHANGELOG.md:17: "Fixed a goroutine/memory leak in ngrok/proto's   *)
(* parsing of http traffic".  When a connection is over, the goroutines    *)
(* that read its copy end.                                                 *)
(***************************************************************************)
InspectorsEnd ==
    \A c \in Conns :
        up[c] = "ended" /\ down[c] = "ended" ~> rq[c] = "done" /\ rs[c] = "done"

=============================================================================
