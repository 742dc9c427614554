------------------------------ MODULE TcpAccept ------------------------------
(***************************************************************************)
(* From the listening socket to EVT_CLOSED: the epoll threads of           *)
(* src/src/posix/io.c, the accept loop and the receive loop of tcpio.c,    *)
(* and the end of a link in ncb.c.                                         *)
(*                                                                         *)
(* Link 0 is the listener, link k belongs to the k-th connection.  A link  *)
(* is served by the thread that its handle falls on; the thread of the     *)
(* listener also serves accepted links.  A step is a system call or a      *)
(* callback; a reference to a link is held by the thread that works on it. *)
(***************************************************************************)
EXTENDS Naturals, Sequences, FiniteSets, SequencesExt

CONSTANTS nprocs,     \* epoll threads
          Malformed,  \* connections whose data the parser refuses
          MaxConns,   \* bound: connections
          MaxData,    \* bound: segments a peer sends
          MaxOrders,  \* bound: orders of the application
          NoMemory,   \* allocations, epoll_ctl and accept4 may fail for want of resources
          Orders      \* what the application does: "destroy", "listener", "uninit"

ASSUME SizesAssumption == nprocs \in Nat \ {0} /\ MaxConns \in Nat /\ MaxData \in Nat
                          /\ MaxOrders \in Nat
ASSUME KindAssumption ==
    /\ Malformed \subseteq 1..MaxConns /\ NoMemory \in BOOLEAN
    /\ Orders \subseteq {"destroy", "listener", "uninit"}

VARIABLES backlog,  \* connections that wait for accept4
          peer,     \* a peer is "none", "open", "fin" (closed) or "rst"
          sent,     \* segments a peer has sent
          inq,      \* segments in the kernel's receive queue of a connection
          shut,     \* links that tcp_destroy has shut down
          fd,       \* the descriptor of a link: "none", "open" or "closed"
          obj,      \* a link is "none", "live", "closing", "unloading", "freed"
          hld,      \* its handle; the listener's is 0
          attached, \* links in their epoll set
          epollin,  \* links with EPOLLIN in their mask
          ready,    \* links on the ready list of their epoll set
          evts,     \* events a thread got from epoll_wait and has not run
          act,      \* what a thread does, and for which link
          todo,     \* handles ncb_uninit has collected and not closed yet
          uninited, \* ncb_uninit was called
          log       \* events the application has seen of a link

kernelVars == <<backlog, peer, sent, inq>>
epollVars == <<attached, epollin, ready>>
linkVars == <<fd, obj, hld>>
appVars == <<shut, todo, uninited>>
vars == <<kernelVars, epollVars, linkVars, appVars, evts, act, log>>

Conns == 1..MaxConns
Links == 0..MaxConns
Threads == 0..(nprocs - 1)
Idle == <<"idle", 0>>

TypeOK ==
    /\ backlog \in Seq(Conns)
    /\ peer \in [Conns -> {"none", "open", "fin", "rst"}]
    /\ sent \in [Conns -> 0..MaxData] /\ inq \in [Conns -> 0..MaxData]
    /\ fd \in [Links -> {"none", "open", "closed"}]
    /\ obj \in [Links -> {"none", "live", "closing", "unloading", "freed"}]
    /\ hld \in [Links -> Links]
    /\ shut \subseteq Links /\ attached \subseteq Links /\ epollin \subseteq Links
    /\ ready \subseteq Links /\ todo \subseteq Links /\ uninited \in BOOLEAN
    /\ evts \in [Threads -> SUBSET (Links \X {"err", "rdhup", "in", "hup"})]
    /\ act \in [Threads -> {"idle", "info", "accept", "setup", "callback", "enable",
                            "read", "drain"} \X Links]
    /\ log \in [Links -> Seq({"ACCEPTED", "RECEIVEDATA", "PRE_CLOSE", "CLOSED"})]

\* tcp_listen has succeeded.
Init ==
    /\ backlog = <<>> /\ peer = [k \in Conns |-> "none"]
    /\ sent = [k \in Conns |-> 0] /\ inq = [k \in Conns |-> 0]
    /\ fd = [k \in Links |-> IF k = 0 THEN "open" ELSE "none"]
    /\ obj = [k \in Links |-> IF k = 0 THEN "live" ELSE "none"]
    /\ hld = [k \in Links |-> 0]
    /\ attached = {0} /\ epollin = {0} /\ ready = {} /\ shut = {}
    /\ evts = [t \in Threads |-> {}] /\ act = [t \in Threads |-> Idle]
    /\ todo = {} /\ uninited = FALSE
    /\ log = [k \in Links |-> <<>>]

Thread(k) == hld[k] % nprocs

\* The listening socket is in TCP_LISTEN.
Listening == fd[0] = "open" /\ 0 \notin shut

MayOrder(what) ==
    what \in Orders /\ Cardinality(shut) + (IF uninited THEN 1 ELSE 0) < MaxOrders

----------------------------------------------------------------------------
(* The kernel.                                                             *)

\* Mutant: EPOLLRDHUP is not in the mask.
Mut_Events(k) ==
    IF k = 0 THEN (IF 0 \in shut THEN {"rdhup", "hup"} ELSE IF backlog # <<>> THEN {"in"} ELSE {})
    ELSE IF peer[k] = "rst" THEN {"err"}
    ELSE IF k \in epollin /\ (inq[k] > 0 \/ peer[k] = "fin") THEN {"in"} ELSE {}

\* What epoll_wait reports of a link that is in its set, as far as _iorun
\* looks at it: an error hides a hang-up, a hang-up hides data.  For a
\* listener that was shut down it is a hang-up of one kind or the other.
Events(k) ==
    IF k = 0 THEN (IF 0 \in shut THEN {"rdhup", "hup"} ELSE IF backlog # <<>> THEN {"in"} ELSE {})
    ELSE IF peer[k] = "rst" THEN {"err"}
    ELSE IF peer[k] = "fin" \/ k \in shut THEN {"rdhup"}
    ELSE IF k \in epollin /\ inq[k] > 0 THEN {"in"} ELSE {}

\* Something happens to link k: an edge puts it on the ready list.
Edge(k) == ready' = IF k \in attached THEN ready \union {k} ELSE ready

Connect(k) ==
    /\ Listening /\ peer[k] = "none" /\ \A j \in 1..(k - 1) : peer[j] # "none"
    /\ peer' = [peer EXCEPT ![k] = "open"]
    /\ backlog' = Append(backlog, k)
    /\ Edge(0)
    /\ UNCHANGED <<sent, inq, attached, epollin, linkVars, appVars, evts, act, log>>

PeerSends(k) ==
    /\ peer[k] = "open" /\ fd[k] # "closed" /\ sent[k] < MaxData
    /\ sent' = [sent EXCEPT ![k] = @ + 1]
    /\ inq' = [inq EXCEPT ![k] = @ + 1]
    /\ Edge(k)
    /\ UNCHANGED <<backlog, peer, attached, epollin, linkVars, appVars, evts, act, log>>

\* The peer closes its connection, or aborts it with a reset, which discards
\* what was not read.
PeerEnds(k) ==
    /\ peer[k] = "open" /\ fd[k] # "closed"
    /\ \/ peer' = [peer EXCEPT ![k] = "fin"] /\ UNCHANGED inq
       \/ peer' = [peer EXCEPT ![k] = "rst"] /\ inq' = [inq EXCEPT ![k] = 0]
    /\ Edge(k)
    /\ UNCHANGED <<backlog, sent, attached, epollin, linkVars, appVars, evts, act, log>>

----------------------------------------------------------------------------
(* The end of a link.                                                      *)

\* Mutant: the accept loop holds no reference to the link it sets up.
Mut_Held(k) == \E t \in Threads : act[t][1] \in {"info", "accept", "read", "drain"} /\ act[t][2] = k

\* A thread works on the link, the accept loop also on its listener.
Held(k) ==
    \E t \in Threads :
       \/ act[t] # Idle /\ act[t][2] = k
       \/ k = 0 /\ act[t][1] \in {"info", "accept", "setup", "callback", "enable"}

\* objclos on a set of links.
Closing(ks) == obj' = [k \in Links |-> IF k \in ks /\ obj[k] = "live" THEN "closing" ELSE obj[k]]

\* ncb_deconstruct, run when the last reference is gone, begins with the
\* application's EVT_PRE_CLOSE ...
PreClose(k) ==
    /\ obj[k] = "closing" /\ ~Held(k)
    /\ obj' = [obj EXCEPT ![k] = "unloading"]
    /\ log' = [log EXCEPT ![k] = Append(@, "PRE_CLOSE")]
    /\ UNCHANGED <<kernelVars, epollVars, fd, hld, appVars, evts, act>>

\* io_close: the link leaves its epoll set and its descriptor is closed.
io_close(k) ==
    /\ attached' = attached \ {k} /\ epollin' = epollin \ {k} /\ ready' = ready \ {k}
    /\ fd' = [fd EXCEPT ![k] = "closed"]
    /\ inq' = [j \in Conns |-> IF j = k THEN 0 ELSE inq[j]]

\* Connections nobody will accept are reset.
DropBacklog(k) ==
    IF k = 0 THEN /\ backlog' = <<>>
                  /\ peer' = [j \in Conns |-> IF j \in Range(backlog) THEN "rst" ELSE peer[j]]
             ELSE UNCHANGED <<backlog, peer>>

\* ... and ends, after io_close, with EVT_CLOSED.
Closed(k) ==
    /\ obj[k] = "unloading"
    /\ io_close(k) /\ DropBacklog(k)
    /\ obj' = [obj EXCEPT ![k] = "freed"]
    /\ log' = [log EXCEPT ![k] = Append(@, "CLOSED")]
    /\ UNCHANGED <<sent, hld, appVars, evts, act>>

----------------------------------------------------------------------------
(* _epoll_proc and _iorun.                                                 *)

Does(t, label, k) == act' = [act EXCEPT ![t] = <<label, k>>]
Done(t) == act' = [act EXCEPT ![t] = Idle]

\* epoll_wait returns everything that is on the thread's ready list.
Wait(t) ==
    LET mine == {k \in ready : Thread(k) = t} IN
    /\ act[t] = Idle /\ evts[t] = {} /\ mine # {}
    /\ \E es \in SUBSET (mine \X {"err", "rdhup", "in", "hup"}) :
          /\ \A e \in es : e[2] \in Events(e[1])
          /\ \A k \in mine : Events(k) # {} => \E e \in es : e[1] = k
          /\ \A d, e \in es : d[1] = e[1] => d = e
          /\ evts' = [evts EXCEPT ![t] = es]
    /\ ready' = ready \ mine
    /\ UNCHANGED <<kernelVars, attached, epollin, linkVars, appVars, act, log>>

\* _iorun up to the handler; an event of a link that is closing is dropped,
\* and so is a bare EPOLLHUP.  io_detach is the first thing _io_rdhup does.
RunEvent(t) ==
    /\ act[t] = Idle
    /\ \E e \in evts[t] :
          LET k == e[1] IN
          /\ evts' = [evts EXCEPT ![t] = @ \ {e}]
          /\ IF obj[k] # "live" \/ e[2] = "hup" THEN UNCHANGED <<obj, act, epollVars>>
             ELSE CASE e[2] = "err" -> Closing({k}) /\ UNCHANGED <<act, epollVars>>
                    [] e[2] = "rdhup" -> /\ Does(t, "drain", k)
                                         /\ attached' = attached \ {k}
                                         /\ epollin' = epollin \ {k} /\ ready' = ready \ {k}
                                         /\ UNCHANGED obj
                    [] e[2] = "in" -> /\ Does(t, IF k = 0 THEN "info" ELSE "read", k)
                                      /\ UNCHANGED <<obj, epollVars>>
    /\ UNCHANGED <<kernelVars, fd, hld, appVars, log>>

\* Mutant: tcp_rx receives without asking FIONREAD.
Mut_Receive(t) ==
    LET k == act[t][2] IN
    /\ act[t][1] \in {"read", "drain"} /\ k # 0 /\ k \notin Malformed
    /\ inq' = [inq EXCEPT ![k] = @ - 1]
    /\ log' = [log EXCEPT ![k] = Append(@, "RECEIVEDATA")]
    /\ UNCHANGED <<backlog, peer, sent, epollVars, linkVars, appVars, evts, act>>

\* One round of tcp_rx: FIONREAD says that there is data, and it is received
\* and posted.
Receive(t) ==
    LET k == act[t][2] IN
    /\ act[t][1] \in {"read", "drain"} /\ k # 0 /\ inq[k] > 0 /\ k \notin Malformed
    /\ inq' = [inq EXCEPT ![k] = @ - 1]
    /\ log' = [log EXCEPT ![k] = Append(@, "RECEIVEDATA")]
    /\ UNCHANGED <<backlog, peer, sent, epollVars, linkVars, appVars, evts, act>>

\* There is nothing left to read, or what was read cannot be parsed.
Stops(k) == IF k = 0 THEN TRUE ELSE inq[k] = 0 \/ k \in Malformed

ReadEnds(t) ==
    LET k == act[t][2] IN
    /\ act[t][1] = "read" /\ Stops(k)
    /\ Done(t)
    /\ Closing(IF k \in Malformed /\ inq[k] > 0 THEN {k} ELSE {})
    /\ UNCHANGED <<kernelVars, epollVars, fd, hld, appVars, evts, log>>

\* Mutant: what is still in the kernel's buffer is not read.
Mut_DrainEnds(t) ==
    LET k == act[t][2] IN
    /\ act[t][1] = "drain"
    /\ io_close(k) /\ DropBacklog(k)
    /\ Done(t) /\ Closing({k})
    /\ UNCHANGED <<sent, hld, appVars, evts, log>>

\* The end of _io_rdhup: io_close and objclos, whatever ncb_read returned.
DrainEnds(t) ==
    LET k == act[t][2] IN
    /\ act[t][1] = "drain" /\ Stops(k)
    /\ io_close(k) /\ DropBacklog(k)
    /\ Done(t) /\ Closing({k})
    /\ UNCHANGED <<sent, hld, appVars, evts, log>>

----------------------------------------------------------------------------
(* tcp_syn, the accept loop.  Its rounds end with "info" again; a failure  *)
(* other than EAGAIN makes _iorun close the listener.                      *)

\* tcp_save_info.  When the socket is no longer in TCP_LISTEN _tcp_syn
\* returns success, and tcp_syn calls it again, forever: there is no step.
SynInfo(t) ==
    /\ act[t][1] = "info" /\ Listening
    /\ Does(t, "accept", 0)
    /\ UNCHANGED <<kernelVars, epollVars, linkVars, appVars, evts, log>>

\* accept4 has no connection for us: EAGAIN.
SynEmpty(t) ==
    /\ act[t][1] = "accept" /\ Listening /\ backlog = <<>>
    /\ Done(t)
    /\ UNCHANGED <<kernelVars, epollVars, linkVars, appVars, evts, log>>

\* accept4 fails in another way, for want of resources or because the socket
\* does not listen any more.
SynFails(t) ==
    /\ act[t][1] = "accept" /\ (NoMemory \/ ~Listening)
    /\ Done(t) /\ Closing({0})
    /\ UNCHANGED <<kernelVars, epollVars, fd, hld, appVars, evts, log>>

\* Mutant: a connection without an object keeps its descriptor.
Mut_SynNoObject(t) ==
    /\ act[t][1] = "accept" /\ Listening /\ backlog # <<>> /\ NoMemory
    /\ fd' = [fd EXCEPT ![Head(backlog)] = "open"]
    /\ backlog' = Tail(backlog)
    /\ Does(t, "info", 0)
    /\ UNCHANGED <<peer, sent, inq, obj, hld, epollVars, appVars, evts, log>>

\* accept4 succeeds but objallo3 does not: the connection is closed.
SynNoObject(t) ==
    /\ act[t][1] = "accept" /\ Listening /\ backlog # <<>> /\ NoMemory
    /\ fd' = [fd EXCEPT ![Head(backlog)] = "closed"]
    /\ inq' = [inq EXCEPT ![Head(backlog)] = 0]
    /\ backlog' = Tail(backlog)
    /\ Does(t, "info", 0)
    /\ UNCHANGED <<peer, sent, obj, hld, epollVars, appVars, evts, log>>

Objects == {k \in Links : obj[k] # "none"}

\* Automatic handles are numbered upwards.
NextHandle == Cardinality(Objects)

SynAccept(t) ==
    /\ act[t][1] = "accept" /\ Listening /\ backlog # <<>>
    /\ LET k == Head(backlog) IN
          /\ fd' = [fd EXCEPT ![k] = "open"]
          /\ obj' = [obj EXCEPT ![k] = "live"]
          /\ hld' = [hld EXCEPT ![k] = NextHandle]
          /\ Does(t, "setup", k)
    /\ backlog' = Tail(backlog)
    /\ UNCHANGED <<peer, sent, inq, epollVars, appVars, evts, log>>

\* _tcp_syn_dpc fails before the callback: link and listener are closed.
SynSetupFails(t) ==
    /\ act[t][1] = "setup" /\ NoMemory
    /\ Done(t) /\ Closing({0, act[t][2]})
    /\ UNCHANGED <<kernelVars, epollVars, fd, hld, appVars, evts, log>>

\* Mutant: EPOLLIN is enabled from the start.
Mut_SynSetup(t) ==
    LET k == act[t][2] IN
    /\ act[t][1] = "setup"
    /\ attached' = attached \union {k} /\ epollin' = epollin \union {k}
    /\ ready' = IF peer[k] # "open" \/ inq[k] > 0 THEN ready \union {k} ELSE ready
    /\ Does(t, "callback", k)
    /\ UNCHANGED <<kernelVars, linkVars, appVars, evts, log>>

\* _tcp_syn_dpc up to io_attach(ncb, 0): hang-ups are reported from now on.
SynSetup(t) ==
    LET k == act[t][2] IN
    /\ act[t][1] = "setup"
    /\ attached' = attached \union {k} /\ UNCHANGED epollin
    /\ ready' = IF Events(k) # {} THEN ready \union {k} ELSE ready
    /\ Does(t, "callback", k)
    /\ UNCHANGED <<kernelVars, linkVars, appVars, evts, log>>

\* EVT_TCP_ACCEPTED.
SynCallback(t) ==
    LET k == act[t][2] IN
    /\ act[t][1] = "callback"
    /\ log' = [log EXCEPT ![k] = Append(@, "ACCEPTED")]
    /\ Does(t, "enable", k)
    /\ UNCHANGED <<kernelVars, epollVars, linkVars, appVars, evts>>

\* Mutant: one connection is accepted for each event.
Mut_SynEnable(t) ==
    LET k == act[t][2] IN
    /\ act[t][1] = "enable"
    /\ epollin' = IF k \in attached THEN epollin \union {k} ELSE epollin
    /\ ready' = IF k \in attached /\ (Events(k) # {} \/ inq[k] > 0) THEN ready \union {k} ELSE ready
    /\ Done(t)
    /\ UNCHANGED <<kernelVars, attached, linkVars, appVars, evts, log>>

\* io_modify(ncb, EPOLLIN), which fails when the link was detached.
SynEnable(t) ==
    LET k == act[t][2] IN
    /\ act[t][1] = "enable"
    /\ epollin' = IF k \in attached THEN epollin \union {k} ELSE epollin
    /\ ready' = IF k \in attached /\ (Events(k) # {} \/ inq[k] > 0) THEN ready \union {k} ELSE ready
    /\ Does(t, "info", 0)
    /\ UNCHANGED <<kernelVars, attached, linkVars, appVars, evts, log>>

----------------------------------------------------------------------------
(* The application.                                                        *)

\* tcp_destroy shuts the socket down; the rest follows from the event.
tcp_destroy(k) ==
    /\ MayOrder(IF k = 0 THEN "listener" ELSE "destroy")
    /\ obj[k] = "live" /\ fd[k] = "open" /\ k \notin shut
    /\ k # 0 => "ACCEPTED" \in Range(log[k])
    /\ shut' = shut \union {k}
    /\ Edge(k) /\ DropBacklog(k)
    /\ UNCHANGED <<sent, inq, attached, epollin, linkVars, todo, uninited, evts, act, log>>

\* ncb_uninit collects the handles of all links ...
UninitCollect ==
    /\ MayOrder("uninit") /\ ~uninited
    /\ uninited' = TRUE /\ todo' = Objects \ {k \in Links : obj[k] = "freed"}
    /\ UNCHANGED <<shut, kernelVars, epollVars, linkVars, evts, act, log>>

\* ... and closes them in the order of their allocation.  A link that is
\* accepted after the collection, or has no protocol yet, is not among them.
UninitClose(k) ==
    /\ k \in todo /\ \A j \in todo : k <= j
    /\ todo' = todo \ {k}
    /\ Closing({k})
    /\ UNCHANGED <<shut, uninited, kernelVars, epollVars, fd, hld, evts, act, log>>

----------------------------------------------------------------------------
Io(t) ==
    \/ Wait(t) \/ RunEvent(t) \/ Receive(t) \/ ReadEnds(t) \/ DrainEnds(t)
    \/ SynInfo(t) \/ SynEmpty(t) \/ SynFails(t) \/ SynNoObject(t) \/ SynAccept(t)
    \/ SynSetupFails(t) \/ SynSetup(t) \/ SynCallback(t) \/ SynEnable(t)

Next ==
    \/ \E k \in Conns : Connect(k) \/ PeerSends(k) \/ PeerEnds(k)
    \/ \E t \in Threads : Io(t)
    \/ \E k \in Links : tcp_destroy(k) \/ UninitClose(k) \/ PreClose(k) \/ Closed(k)
    \/ UninitCollect

Spec == Init /\ [][Next]_vars

\* Every epoll thread goes on, and so does the thread that gives the last
\* reference to a link back (there are finitely many links to end).
FairSpec ==
    /\ Spec
    /\ \A t \in Threads : WF_vars(Io(t))
    /\ WF_vars(\E k \in Links : PreClose(k) \/ Closed(k))

----------------------------------------------------------------------------
(* Properties.                                                             *)

\* The application sees the end of a link once and last: after EVT_PRE_CLOSE
\* comes EVT_CLOSED and nothing else, whatever events, hang-ups and closes
\* from other threads are under way; the accepted callback is never late.
CloseIsLast ==
    \A k \in Links : \A i \in 1..Len(log[k]) :
       /\ log[k][i] = "PRE_CLOSE" => i + 1 >= Len(log[k])
       /\ log[k][i] = "CLOSED" => i = Len(log[k]) /\ i > 1 /\ log[k][i - 1] = "PRE_CLOSE"

\* No descriptor is left behind: an open one belongs to a link that is not
\* gone, and a link that is gone is in no epoll set.
DescriptorsOwned ==
    \A k \in Links :
       /\ fd[k] = "open" => obj[k] \in {"live", "closing", "unloading"}
       /\ obj[k] = "freed" => k \notin attached \union ready

Count(k, event) == Len(SelectSeq(log[k], LAMBDA e : e = event))

\* "before socket close, we MUST clear data which residual and pending in
\* kernel buffer": all that a peer sent before it closed its end in order is
\* posted before EVT_CLOSED, unless the application ended the link.
ClearedBeforeClose ==
    \A k \in Conns \ Malformed :
       /\ "CLOSED" \in Range(log[k]) /\ "ACCEPTED" \in Range(log[k])
       /\ peer[k] = "fin" /\ k \notin shut /\ ~uninited
       => Count(k, "RECEIVEDATA") = sent[k]

\* "receive message should NOT early than accepted message": it is not, as
\* long as the peer stays, or when the link shares its listener's thread.
AcceptedBeforeData ==
    \A k \in Conns :
       log[k] # <<>> /\ log[k][1] = "RECEIVEDATA" => peer[k] # "open" /\ Thread(k) # Thread(0)

\* Edge-triggered accepting leaves nobody behind: as long as the listener
\* lives, the backlog is emptied again and again.
BacklogServed == []<>(backlog = <<>> \/ obj[0] # "live")

\* The accept loop of thread t goes round and round on a socket that was shut
\* down under it (see SynInfo).
Spins(t) == act[t][1] = "info" /\ ~Listening

\* Links whose peer has gone and whose end the application has not seen.
Unreported ==
    {k \in Conns : /\ obj[k] # "none" /\ peer[k] \in {"fin", "rst"}
                   /\ "CLOSED" \notin Range(log[k])}

\* The application gets EVT_CLOSED for every link whose peer has gone, however
\* the hang-up met the accept loop and other closes: nothing but an accept
\* loop that spins in the link's own thread prevents it.
ClosedIsReported == []<>(\A k \in Unreported : Spins(Thread(k)))
=============================================================================
