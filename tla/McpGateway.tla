------------------------------ MODULE McpGateway ------------------------------
(***************************************************************************)
(* The MCP stdio gateway (adapters/generic_mcp/gateway.py): one process    *)
(* between one client and one MCP server, with a thread for the lines of   *)
(* the client, a thread for the lines of the server, and a main thread     *)
(* that starts them and waits.  The two threads share the table of pending *)
(* calls and the evidence chain of the session.                            *)
(*                                                                         *)
(* A line of the client is [n, kind, id]: its number, which only this      *)
(* model knows, what it is, and its JSON-RPC id, which clients may reuse.  *)
(* What policy says of a call is a choice; process() is split where its    *)
(* evidence is written, for the other thread may write in between.         *)
(***************************************************************************)
EXTENDS EvidenceChain, Functions

CONSTANTS
  Ids,          \* JSON-RPC ids of requests
  NoId,         \* the id of a notification, and of an error about no request
  MaxLines,     \* bound: lines the client writes
  MaxRequests,  \* bound: requests of its own that the server writes
  MaxFaults,    \* bound: records that raise, and rows damaged, together
  PipeSize      \* lines that a pipe to or from the server holds

ASSUME McpAssumption ==
  /\ NoId \notin Ids
  /\ {MaxLines, MaxRequests, MaxFaults} \subseteq Nat
  /\ PipeSize \in Nat \ {0}

VARIABLES
  main,      \* the main thread
  cpc, cur,  \* the client's thread: where it is, and the line it handles
  spc, scur, \* the server's thread, and the line it handles
  pending,   \* id -> number of the call that was released under it, 0 if none
  agent,     \* the client's name: what decisions take for the agent
  chain,     \* rows of the evidence chain
  lines,     \* lines of the client that the gateway has read, by number
  open,      \* whether the client still writes
  toServer,  \* the server's standard input
  working,   \* calls that the server has read and not answered
  server,    \* "up", "exited", or "none" while it is not started
  fromServer,\* the server's standard output
  told,      \* lines the client was given
  recorded,  \* history: the events as they were appended, in order
  requests,  \* requests of its own that the server has written
  faults

pump == <<cpc, cur>>
relay == <<spc, scur>>
client == <<lines, open>>
backend == <<server, toServer, working, fromServer, requests>>
evidence == <<chain, recorded>>
vars == <<main, pump, relay, pending, agent, evidence, client, backend, told, faults>>

Kinds == {"initialize", "call", "other", "badCall", "garbage"}
Lines == [n : 1..MaxLines, kind : Kinds, id : Ids \cup {NoId}]
NoLine == [n |-> 0, kind |-> "none", id |-> NoId]

Answers  == [type : {"answer", "error"}, n : 0..MaxLines, id : Ids \cup {NoId}]
Requests == [type : {"request"}, n : {0}, id : Ids]

\* The end of run_proxy: an exit status, or an exception of server.wait.
Ended == {"refused", "returned", "raised"}

Steps == {"connect", "request", "permitted", "blocked", "observed"}
Agents == {"mcp_client", "unknown", "named", "none"}
ChainEvents == [what : Steps, n : 0..MaxLines, agent : Agents]

\* EvidenceChain.append under the recorder of the gateway.
RecordEvent(what, n, who) ==
  LET e == [what |-> what, n |-> n, agent |-> who]
  IN  /\ chain' = Appended(chain, e)
      /\ recorded' = Append(recorded, e)

\* A record raises: the disk is full, the database locked, the event invalid.
Fault == faults < MaxFaults /\ faults' = faults + 1

Init ==
  /\ main = "start" /\ cpc = "idle" /\ cur = NoLine /\ spc = "idle" /\ scur = NoLine
  /\ pending = [i \in Ids |-> 0]
  /\ agent = "unknown"
  /\ chain = <<>> /\ recorded = <<>>
  /\ lines = <<>> /\ open = TRUE
  /\ toServer = <<>> /\ working = {} /\ server = "none" /\ fromServer = <<>>
  /\ told = {} /\ requests = 0 /\ faults = 0

-----------------------------------------------------------------------------
\* run_proxy.

\* authorize_start decides on the connection; the server is started if it may.
AuthorizeStart ==
  /\ main = "start"
  /\ \/ /\ main' = "serving" /\ cpc' = "read" /\ spc' = "read" /\ server' = "up"
        /\ RecordEvent("connect", 0, "mcp_client")
        /\ UNCHANGED faults
     \/ /\ main' = "refused"
        /\ RecordEvent("connect", 0, "mcp_client")
        /\ UNCHANGED <<cpc, spc, server, faults>>
     \/ /\ Fault /\ main' = "raised" /\ UNCHANGED <<cpc, spc, server, evidence>>
  /\ UNCHANGED <<cur, scur, pending, agent, client, toServer, working, fromServer, told, requests>>

\* The client's thread is over: the server's input is closed.
CloseServerInput ==
  /\ main = "serving" /\ cpc = "done"
  /\ main' = "waiting"
  /\ UNCHANGED <<pump, relay, pending, agent, evidence, client, backend, told, faults>>

\* Fault: the wait for the server has no timeout.
WaitServerForEver ==
  /\ main = "waiting" /\ server = "exited"
  /\ main' = "returned"
  /\ cpc' = "done" /\ spc' = "done" /\ scur' = NoLine
  /\ UNCHANGED <<cur, pending, agent, evidence, client, backend, told, faults>>

\* The server's thread is joined for five seconds, then the server has ten to
\* exit: its status, or TimeoutExpired.  The threads end with the process.
WaitServer ==
  /\ main = "waiting"
  /\ main' = IF server = "exited" THEN "returned" ELSE "raised"
  /\ cpc' = "done" /\ spc' = "done" /\ scur' = NoLine
  /\ UNCHANGED <<cur, pending, agent, evidence, client, backend, told, faults>>

-----------------------------------------------------------------------------
\* The client's thread: _client_pump and on_client_line.

\* After an answer to the client: a client that is gone for good breaks the
\* pipe, which nothing catches here.
Answered(at) == at = "read" \/ (~open /\ at = "done")

\* The next line, of what the client wrote before it closed its end.
ReadClient(kind, id) ==
  /\ cpc = "read" /\ Len(lines) < MaxLines
  /\ cur' = [n |-> Len(lines) + 1, kind |-> kind, id |-> id]
  /\ lines' = Append(lines, cur')
  /\ CASE kind = "call"                   -> cpc' = "request"
       [] kind \in {"initialize", "other"} -> cpc' = "forward"
       [] OTHER                            -> \E at \in {"read", "done"} : Answered(at) /\ cpc' = at
  /\ agent' = IF kind = "initialize" THEN "named" ELSE agent
  /\ told' = IF kind \in {"badCall", "garbage"}
             THEN told \cup {[type |-> "error", n |-> cur'.n, id |-> id]}
             ELSE told
  /\ UNCHANGED <<main, relay, pending, evidence, open, backend, faults>>

ClientEnds ==
  /\ cpc = "read" /\ ~open
  /\ cpc' = "done" /\ cur' = NoLine
  /\ UNCHANGED <<main, relay, pending, agent, evidence, client, backend, told, faults>>

\* process records the request before it decides.
RequestCall ==
  /\ cpc = "request"
  /\ RecordEvent("request", cur.n, agent)
  /\ cpc' = "enforce"
  /\ UNCHANGED <<main, cur, relay, pending, agent, client, backend, told, faults>>

\* It permits: the call is pending before it is forwarded.
PermitCall ==
  /\ cpc = "enforce"
  /\ RecordEvent("permitted", cur.n, agent)
  /\ pending' = IF cur.id = NoId THEN pending ELSE [pending EXCEPT ![cur.id] = cur.n]
  /\ cpc' = "forward"
  /\ UNCHANGED <<main, cur, relay, agent, client, backend, told, faults>>

BlockCall ==
  /\ cpc = "enforce"
  /\ RecordEvent("blocked", cur.n, agent)
  /\ told' = told \cup {[type |-> "error", n |-> cur.n, id |-> cur.id]}
  /\ \E at \in {"read", "done"} : Answered(at) /\ cpc' = at
  /\ UNCHANGED <<main, cur, relay, pending, agent, client, backend, faults>>

\* Whatever process raises blocks the call; the error answers no request.  An
\* event that fails its schema is in the chain when the recorder raises.
FailCall ==
  /\ cpc \in {"request", "enforce"} /\ Fault
  /\ \/ UNCHANGED evidence
     \/ RecordEvent(IF cpc = "request" THEN "request" ELSE "permitted", cur.n, agent)
  /\ told' = told \cup {[type |-> "error", n |-> cur.n, id |-> NoId]}
  /\ \E at \in {"read", "done"} : Answered(at) /\ cpc' = at
  /\ UNCHANGED <<main, cur, relay, pending, agent, client, backend>>

\* A full pipe blocks the thread; a server that is gone ends it.
Forward ==
  /\ cpc = "forward"
  /\ \/ /\ server = "up" /\ Len(toServer) < PipeSize
        /\ toServer' = Append(toServer, cur) /\ cpc' = "read"
     \/ /\ server = "exited" /\ cpc' = "done" /\ UNCHANGED toServer
  /\ UNCHANGED <<main, cur, relay, pending, agent, evidence, client, server, working,
                 fromServer, requests, told, faults>>

-----------------------------------------------------------------------------
\* The server's thread: _server_pump and on_server_line.

ReadServer ==
  /\ spc = "read" /\ fromServer # <<>>
  /\ scur' = Head(fromServer)
  /\ fromServer' = Tail(fromServer)
  /\ spc' = "record"
  /\ UNCHANGED <<main, pump, pending, agent, evidence, client, server, toServer, working,
                 requests, told, faults>>

ServerEnds ==
  /\ spc = "read" /\ fromServer = <<>> /\ server = "exited"
  /\ spc' = "done"
  /\ UNCHANGED <<main, pump, scur, pending, agent, evidence, client, backend, told, faults>>

\* Any line of the server that carries the id of a pending call, a request of
\* the server's own too, takes the call off the table.
Pending(line) == IF line.id = NoId THEN 0 ELSE pending[line.id]

\* Fault: the call stays on the table.
UnpendLeft(line) == pending
Unpend(line) == IF line.id = NoId THEN pending ELSE [pending EXCEPT ![line.id] = 0]

\* Fault: a record that fails is passed over, and the line goes on.
RecordResultQuietly ==
  /\ spc = "record"
  /\ pending' = Unpend(scur) /\ spc' = "write"
  /\ \/ Pending(scur) = 0 /\ UNCHANGED <<evidence, faults>>
     \/ Pending(scur) # 0 /\ RecordEvent("observed", Pending(scur), "none") /\ UNCHANGED faults
     \/ Pending(scur) # 0 /\ Fault /\ UNCHANGED evidence
  /\ UNCHANGED <<main, pump, scur, agent, client, backend, told>>

\* The call is recorded as executed before the line goes on.  Nothing catches
\* what the recorder raises: the thread is gone, and the line with it, though an
\* event that fails its schema is in the chain by then.
RecordResult ==
  /\ spc = "record"
  /\ pending' = Unpend(scur)
  /\ \/ /\ Pending(scur) = 0 /\ spc' = "write" /\ UNCHANGED <<evidence, faults>>
     \/ /\ Pending(scur) # 0 /\ spc' = "write" /\ UNCHANGED faults
        /\ RecordEvent("observed", Pending(scur), "none")
     \/ /\ Pending(scur) # 0 /\ Fault /\ spc' = "dead"
        /\ UNCHANGED evidence \/ RecordEvent("observed", Pending(scur), "none")
  /\ UNCHANGED <<main, pump, scur, agent, client, backend, told>>

\* The client is taken to read what is written to it while it is there: its pipe
\* is never full.
WriteClient ==
  /\ spc = "write"
  /\ \/ told' = told \cup {scur} /\ spc' = "read"
     \/ ~open /\ spc' = "dead" /\ UNCHANGED told
  /\ UNCHANGED <<main, pump, scur, pending, agent, evidence, client, backend, faults>>

-----------------------------------------------------------------------------
\* The client and the server.

ClientCloses ==
  /\ main = "serving" /\ open
  /\ open' = FALSE
  /\ UNCHANGED <<main, pump, relay, pending, agent, evidence, lines, backend, told, faults>>

\* The server reads while it is not blocked on its own output.
ServerReads ==
  /\ server = "up" /\ toServer # <<>> /\ Len(fromServer) < PipeSize
  /\ toServer' = Tail(toServer)
  /\ working' = IF Head(toServer).id = NoId THEN working ELSE working \cup {Head(toServer)}
  /\ UNCHANGED <<main, pump, relay, pending, agent, evidence, client, server, fromServer,
                 requests, told, faults>>

ServerAnswers ==
  /\ server = "up" /\ Len(fromServer) < PipeSize
  /\ \E line \in working :
       /\ working' = working \ {line}
       /\ fromServer' = Append(fromServer, [type |-> "answer", n |-> line.n, id |-> line.id])
  /\ UNCHANGED <<main, pump, relay, pending, agent, evidence, client, server, toServer,
                 requests, told, faults>>

\* A request of the server numbers its ids itself.
ServerRequests ==
  /\ server = "up" /\ Len(fromServer) < PipeSize /\ requests < MaxRequests
  /\ requests' = requests + 1
  /\ \E id \in Ids : fromServer' = Append(fromServer, [type |-> "request", n |-> 0, id |-> id])
  /\ UNCHANGED <<main, pump, relay, pending, agent, evidence, client, server, toServer,
                 working, told, faults>>

ServerExits ==
  /\ server = "up"
  /\ server' = "exited" /\ working' = {} /\ toServer' = <<>>
  /\ UNCHANGED <<main, pump, relay, pending, agent, evidence, client, fromServer, requests,
                 told, faults>>

\* A row of the chain is lost or altered.  (It might be at any time; that it is
\* while the gateway waits leaves the server's last lines to be appended.)
DamageChain ==
  /\ main = "waiting" /\ Fault
  /\ \E i \in DOMAIN chain :
       \/ chain' = Lost(chain, i)
       \/ chain' = Altered(chain, i, [what |-> "blocked", n |-> 0, agent |-> "none"])
  /\ UNCHANGED <<main, pump, relay, pending, agent, recorded, client, backend, told>>

-----------------------------------------------------------------------------
RunProxy == AuthorizeStart \/ CloseServerInput \/ WaitServer

\* The kinds of line and the ids they carry.
ClientLine ==
  \E kind \in Kinds, id \in Ids \cup {NoId} :
    /\ kind \in {"other", "garbage"} => id = NoId
    /\ kind \in {"initialize", "badCall"} => id # NoId
    /\ ReadClient(kind, id)

ClientPump ==
  ClientEnds \/ RequestCall \/ PermitCall \/ BlockCall \/ FailCall \/ Forward

ServerPump == ReadServer \/ ServerEnds \/ RecordResult \/ WriteClient

Outside ==
  \/ ClientLine \/ ClientCloses
  \/ ServerReads \/ ServerAnswers \/ ServerRequests \/ ServerExits
  \/ DamageChain

Next == RunProxy \/ ClientPump \/ ServerPump \/ Outside

Spec == Init /\ [][Next]_vars

\* The three threads run; the server reads what it is sent unless it is blocked.
FairSpec ==
  /\ Spec
  /\ WF_vars(RunProxy) /\ WF_vars(ClientPump) /\ WF_vars(ServerPump) /\ WF_vars(ServerReads)

-----------------------------------------------------------------------------
(* The types of the state.  The rows of the chain may be damaged, and are    *)
(* typed by the events in them.                                              *)
TypeOK ==
  /\ main \in {"start", "serving", "waiting"} \cup Ended
  /\ cpc \in {"idle", "read", "request", "enforce", "forward", "done"}
  /\ cur \in Lines \cup {NoLine}
  /\ spc \in {"idle", "read", "record", "write", "done", "dead"}
  /\ scur \in Answers \cup Requests \cup {NoLine}
  /\ pending \in [Ids -> 0..MaxLines]
  /\ agent \in {"unknown", "named"}
  /\ \A i \in DOMAIN chain : chain[i].event \in ChainEvents
  /\ recorded \in Seq(ChainEvents)
  /\ lines \in Seq(Lines) /\ Len(lines) <= MaxLines
  /\ open \in BOOLEAN
  /\ toServer \in Seq(Lines) /\ Len(toServer) <= PipeSize /\ working \subseteq Lines
  /\ server \in {"none", "up", "exited"}
  /\ fromServer \in Seq(Answers \cup Requests) /\ Len(fromServer) <= PipeSize
  /\ told \subseteq Answers \cup Requests
  /\ requests \in 0..MaxRequests /\ faults \in 0..MaxFaults

\* What is in evidence of line n, at most up to position k of the history.
InEvidence(what, n, k) == \E i \in 1..k : recorded[i].what = what /\ recorded[i].n = n

CallsAtServer == { line \in working \cup Range(toServer) : line.kind = "call" }

InTurn(i) ==
  LET e == recorded[i]
  IN  /\ e.what = "connect" <=> i = 1
      /\ e.what \in {"permitted", "blocked"} => InEvidence("request", e.n, i - 1)
      /\ e.what = "observed" => InEvidence("permitted", e.n, i - 1)
      /\ ~InEvidence(e.what, e.n, i - 1)

EvidenceInOrder == \A i \in DOMAIN recorded : InTurn(i)

(* Evidence comes first, once, and in order: the connection before any call, *)
(* a request before what was decided, a permission before the execution that *)
(* is observed, which no call has twice, however ids are reused; and a call  *)
(* is with the server only if its permission is in evidence (on_client_line  *)
(* and on_server_line run in two threads over one table, gateway.py:62-118). *)
EvidenceComesFirst ==
  /\ EvidenceInOrder
  /\ \A line \in CallsAtServer : InEvidence("permitted", line.n, Len(recorded))

\* Another call of the client has the id of line n.
IdIsReused(n) ==
  \E m \in DOMAIN lines : m # n /\ lines[m].kind = "call" /\ lines[m].id = lines[n].id

(* A server's answer that reaches the client is in evidence as executed,     *)
(* unless the client had used the id of the call for another one: the answer *)
(* may come before the forwarding thread does anything else, and the record  *)
(* may fail (gateway.py:99-100, 102-118).                                    *)
AnswersAreObserved ==
  \A a \in told :
    (a.type = "answer" /\ lines[a.n].kind = "call" /\ ~IdIsReused(a.n))
      => InEvidence("observed", a.n, Len(recorded))

\* s is what is left of t, which has no member twice, after some of them are
\* taken away: a member of s is in t, behind those that are before it in s.
Subsequence(s, t) ==
  \A j \in DOMAIN s : \E l \in DOMAIN t :
    /\ t[l] = s[j]
    /\ \A i \in 1..(j - 1) : \E k \in 1..(l - 1) : t[k] = s[i]

(* verify tells a damaged chain: what it calls valid holds recorded events   *)
(* only, in the order they were recorded, and a chain that is as recorded is *)
(* valid.  A lost tail is not noticed, nor what was appended after it        *)
(* (chain.py:102-121).                                                       *)
VerifyIsRight ==
  /\ Valid(chain) => Subsequence(EventsOf(chain), recorded)
  /\ EventsOf(chain) = recorded => Valid(chain)

(* When the client has closed its end the gateway ends, with a server that   *)
(* reads and one that hangs, but for a server's thread that ended first:     *)
(* with nobody to read the server's output, everyone may wait for everyone   *)
(* (gateway.py:134, 158-188).                                                *)
ProxyEnds == ~open ~> (main \in Ended \/ spc = "dead")
=============================================================================
