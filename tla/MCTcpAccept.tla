----------------------------- MODULE MCTcpAccept -----------------------------
(* Two connections and two epoll threads: the first accepted link is on    *)
(* the thread of its own, the second shares the listener's thread.         *)
EXTENDS TcpAccept

SecondIsMalformed == {2}
AllOrders == {"destroy", "listener", "uninit"}
=============================================================================
