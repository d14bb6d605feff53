----------------------------- MODULE Establish ------------------------------
(***************************************************************************)
(* How connections come to be: Listen, Accept and Close of the tcp, ws and *)
(* quic listeners and Dial of the three transports                         *)
(* (src/transports/{tcp,ws,quic}/{listener,transport}.go), one listener    *)
(* against several clients.  A client either calls Dial, which gives up    *)
(* after a time, or is raw: it stays silent, breaks off, pipelines or      *)
(* sends nonsense as it likes, one ws request per connection.  What a      *)
(* socket does once it is handed over is the business of TcpSocket,        *)
(* WsSocket and QuicSocket.                                                *)
(*                                                                         *)
(* Both sides are built from the same options.  The kernel's backlog and   *)
(* quic-go's accept queue are "backlog"; "setup" is a connection of which  *)
(* the http.Server reads the request, or AcceptStream awaits the stream.   *)
(***************************************************************************)
EXTENDS Naturals, Sequences

CONSTANTS
  Conns,       \* clients, one connection each
  Kinds,       \* the transports: "tcp", "ws", "quic"
  FirstDelay,  \* tempDelay after the first transient error
  MaxDelay,    \* its cap
  MaxErrors,   \* bound: transient accept errors in a row
  Timed,       \* connections whose timers fire; those of the others are
               \* longer than anyone waits
  MaxBytes     \* bound: MaxBytes[c][dir], bytes sent around the handshake

ASSUME ConstantsType ==
  /\ Kinds \subseteq {"tcp", "ws", "quic"}
  /\ FirstDelay \in Nat \ {0} /\ MaxDelay \in Nat /\ FirstDelay <= MaxDelay
  /\ MaxErrors \in Nat /\ Timed \subseteq Conns
  /\ MaxBytes \in [Conns -> [{"up", "down"} -> Nat]]

VARIABLES
  kind, opts,  \* the transport and its options Secure and TLSConfig
  lst,         \* the listener: "none", "refused" by Listen, "open", "closed"
  port,        \* is the port bound
  loop,        \* Accept: "none", "store", "accept", "sleep"; "returned" to
               \* report a Close, "failed" with a permanent error
  tempDelay,   \* of the accept loop
  errors,      \* history: transient errors since the last connection
  srv,         \* per client: where its connection is at the server
  dial,        \* per client: where the client is
  cend,        \* per client: is its end of the connection open
  raw,         \* per client: does it speak without Dial
  sent, flight, extra   \* per client and direction: bytes sent, on their way,
                        \* and handed to the socket with the handshake's reader

listener == <<lst, port, loop, tempDelay, errors>>
bytes    == <<sent, flight, extra>>
vars     == <<kind, opts, listener, srv, dial, cend, raw, bytes>>

Dirs == {"up", "down"}

-----------------------------------------------------------------------------
(* Listen *)

UsesTls == opts.secure \/ opts.config

(* A missing TLSConfig is an error where TLS is asked for; quic asks for   *)
(* it always.                                                              *)
NoTlsConfig == ~opts.config /\ (UsesTls \/ kind = "quic")

(* No TLSConfig, or the address is taken.  ws has bound the port by the    *)
(* time it misses the config, and closes it again.                         *)
ListenRefused ==
  /\ lst = "none"
  /\ lst' = "refused" /\ port' = FALSE
  /\ UNCHANGED <<kind, opts, loop, tempDelay, errors, srv, dial, cend, raw,
                 bytes>>

Listen ==
  /\ lst = "none" /\ ~NoTlsConfig
  /\ lst' = "open" /\ port' = TRUE
  /\ UNCHANGED <<kind, opts, loop, tempDelay, errors, srv, dial, cend, raw,
                 bytes>>

-----------------------------------------------------------------------------
(* Accept *)

AcceptCall ==             \* ws stores the handler before it calls Serve
  /\ loop = "none" /\ lst \in {"open", "closed"}
  /\ loop' = IF kind = "ws" THEN "store" ELSE "accept"
  /\ UNCHANGED <<kind, opts, lst, port, tempDelay, errors, srv, dial, cend,
                 raw, bytes>>

Serve ==
  /\ loop = "store"
  /\ loop' = IF lst = "open" THEN "accept" ELSE "returned"
  /\ UNCHANGED <<kind, opts, lst, port, tempDelay, errors, srv, dial, cend,
                 raw, bytes>>

(* Mutant: the back-off is not reset.                                      *)
AcceptConnNoReset(c) ==
  /\ loop = "accept" /\ lst = "open" /\ srv[c] = "backlog"
  /\ errors' = 0
  /\ srv' = [srv EXCEPT ![c] = IF kind = "tcp" THEN "handler" ELSE "setup"]
  /\ UNCHANGED <<kind, opts, lst, port, loop, tempDelay, dial, cend, raw,
                 bytes>>

(* Mutant: quic awaits the stream of a connection on the accept loop.      *)
AcceptConnOnLoop(c) ==
  /\ loop = "accept" /\ lst = "open" /\ srv[c] = "backlog"
  /\ kind = "quic" => \A e \in Conns : srv[e] # "setup"
  /\ tempDelay' = 0 /\ errors' = 0
  /\ srv' = [srv EXCEPT ![c] = IF kind = "tcp" THEN "handler" ELSE "setup"]
  /\ UNCHANGED <<kind, opts, lst, port, loop, dial, cend, raw, bytes>>

(* A connection: tcp starts its handler, ws and quic a goroutine that sets *)
(* it up, so that the loop goes on whatever the client does.               *)
AcceptConn(c) ==
  /\ loop = "accept" /\ lst = "open" /\ srv[c] = "backlog"
  /\ tempDelay' = 0 /\ errors' = 0
  /\ srv' = [srv EXCEPT ![c] = IF kind = "tcp" THEN "handler" ELSE "setup"]
  /\ UNCHANGED <<kind, opts, lst, port, loop, dial, cend, raw, bytes>>

Smaller(a, b) == IF a < b THEN a ELSE b

(* Mutant: the cap is forgotten.                                           *)
NextDelayUncapped(delay) == IF delay = 0 THEN FirstDelay ELSE 2 * delay

NextDelay(delay) ==
  Smaller(IF delay = 0 THEN FirstDelay ELSE 2 * delay, MaxDelay)

AcceptTemporary ==        \* the tcp loop sleeps and tries again
  /\ kind = "tcp" /\ loop = "accept" /\ lst = "open" /\ errors < MaxErrors
  /\ tempDelay' = NextDelay(tempDelay) /\ errors' = errors + 1
  /\ loop' = "sleep"
  /\ UNCHANGED <<kind, opts, lst, port, srv, dial, cend, raw, bytes>>

Wake ==
  /\ loop = "sleep"
  /\ loop' = "accept"
  /\ UNCHANGED <<kind, opts, lst, port, tempDelay, errors, srv, dial, cend,
                 raw, bytes>>

AcceptReturns ==          \* net.ErrClosed, the cancelled context
  /\ loop = "accept" /\ lst = "closed"
  /\ loop' = "returned"
  /\ UNCHANGED <<kind, opts, lst, port, tempDelay, errors, srv, dial, cend,
                 raw, bytes>>

AcceptPermanent ==        \* any other error; ws: Serve closes its listener
  /\ loop = "accept" /\ lst = "open"
  /\ loop' = "failed" /\ port' = (kind # "ws")
  /\ UNCHANGED <<kind, opts, lst, tempDelay, errors, srv, dial, cend, raw,
                 bytes>>

-----------------------------------------------------------------------------
(* Close of the listener *)

(* What nobody has accepted is reset; the http.Server closes what it has   *)
(* not handed over, and quic's waiters see their context cancelled.  That  *)
(* the port is free at once, too, when accepted connections live on is the *)
(* kernel's doing for tcp and ws; for quic it is assumed of quic-go.       *)
Dropped(c) == \/ srv[c] = "backlog"
              \/ kind = "ws" /\ srv[c] \in {"setup", "answered", "draining"}

(* Mutant: ws closes its http.Server only, which knows the net.Listener    *)
(* from Serve on.                                                          *)
ListenerCloseServer ==
  /\ lst = "open"
  /\ lst' = "closed" /\ port' = (port /\ kind = "ws" /\ loop # "accept")
  /\ srv' = [c \in Conns |-> IF Dropped(c) THEN "closed" ELSE srv[c]]
  /\ UNCHANGED <<kind, opts, loop, tempDelay, errors, dial, cend, raw, bytes>>

ListenerClose ==
  /\ lst = "open"
  /\ lst' = "closed" /\ port' = FALSE
  /\ srv' = [c \in Conns |-> IF Dropped(c) THEN "closed" ELSE srv[c]]
  /\ UNCHANGED <<kind, opts, loop, tempDelay, errors, dial, cend, raw, bytes>>

-----------------------------------------------------------------------------
(* From connection to socket at the server *)

(* Mutant: what is left in the hijacked reader is forgotten.               *)
TakeNothing(c, dir, k) ==
  /\ UNCHANGED extra
  /\ flight' = [flight EXCEPT ![c][dir] =
                  SubSeq(flight[c][dir], k + 1, Len(flight[c][dir]))]

(* The first k bytes in direction dir arrived in one piece with the        *)
(* handshake and sit in its buffered reader, which becomes extra.          *)
TakeBuffered(c, dir, k) ==
  /\ extra' = [extra EXCEPT ![c][dir] = SubSeq(flight[c][dir], 1, k)]
  /\ flight' = [flight EXCEPT ![c][dir] =
                  SubSeq(flight[c][dir], k + 1, Len(flight[c][dir]))]

Upgrade(c, k) ==          \* serveWS: hijack, extra, newSocket, the handler
  /\ kind = "ws" /\ srv[c] = "setup"
  /\ k <= Len(flight[c]["up"])
  /\ TakeBuffered(c, "up", k)
  /\ srv' = [srv EXCEPT ![c] = "handler"]
  /\ UNCHANGED <<kind, opts, listener, dial, cend, raw, sent>>

UpgradeFails(c) ==        \* hijacked, then found wanting, and closed
  /\ kind = "ws" /\ srv[c] = "setup" /\ raw[c]
  /\ srv' = [srv EXCEPT ![c] = "closed"]
  /\ UNCHANGED <<kind, opts, listener, dial, cend, raw, bytes>>

(* Another path, say: answered, not hijacked.  What is left of the         *)
(* request's body is read first, and a raw client may withhold it.         *)
HttpError(c) ==
  /\ kind = "ws" /\ srv[c] = "setup"
  /\ \/ srv' = [srv EXCEPT ![c] = "answered"]
     \/ raw[c] /\ srv' = [srv EXCEPT ![c] = "draining"]
  /\ UNCHANGED <<kind, opts, listener, dial, cend, raw, bytes>>

HttpBody(c) ==            \* the rest of the body arrives
  /\ srv[c] = "draining" /\ cend[c]
  /\ srv' = [srv EXCEPT ![c] = "answered"]
  /\ UNCHANGED <<kind, opts, listener, dial, cend, raw, bytes>>

(* ReadHeaderTimeout, IdleTimeout, or the client left; no timer runs while *)
(* the body is awaited.                                                    *)
HttpExpires(c) ==
  /\ kind = "ws"
  /\ srv[c] \in {"setup", "answered"} \/ (srv[c] = "draining" /\ ~cend[c])
  /\ srv' = [srv EXCEPT ![c] = "closed"]
  /\ UNCHANGED <<kind, opts, listener, dial, cend, raw, bytes>>

(* quic tells the server of a stream when its first byte arrives.          *)
AcceptStream(c) ==
  /\ kind = "quic" /\ srv[c] = "setup" /\ sent[c]["up"] > 0
  /\ srv' = [srv EXCEPT ![c] = "handler"]
  /\ UNCHANGED <<kind, opts, listener, dial, cend, raw, bytes>>

(* The bounded wait is over, the listener was closed or the client left:   *)
(* CloseWithError.                                                         *)
AcceptStreamFails(c) ==
  /\ kind = "quic" /\ srv[c] = "setup"
  /\ srv' = [srv EXCEPT ![c] = "closed"]
  /\ UNCHANGED <<kind, opts, listener, dial, cend, raw, bytes>>

(* The handler owns the socket: it closes it, panics, whereupon the        *)
(* listener closes it, or returns and leaves it to the application.        *)
HandlerEnds(c) ==
  /\ srv[c] = "handler"
  /\ srv' \in {[srv EXCEPT ![c] = s] : s \in {"ended", "owned"}}
  /\ UNCHANGED <<kind, opts, listener, dial, cend, raw, bytes>>

-----------------------------------------------------------------------------
(* Dial, and clients without it *)

DialCall(c) ==
  /\ dial[c] = "none" /\ lst # "none"
  /\ dial' = [dial EXCEPT ![c] = "connecting"]
  /\ raw' \in {[raw EXCEPT ![c] = b] : b \in BOOLEAN}
  /\ UNCHANGED <<kind, opts, listener, srv, cend, bytes>>

(* The connection is made, the ws request sent.  A plain tcp Dial is done; *)
(* with TLS it waits for the handshake that the handler's Recv will drive. *)
Connected(c) ==
  /\ dial[c] = "connecting" /\ lst = "open" /\ port
  /\ srv' = [srv EXCEPT ![c] = "backlog"] /\ cend' = [cend EXCEPT ![c] = TRUE]
  /\ dial' = [dial EXCEPT ![c] =
                IF kind = "tcp" /\ ~UsesTls THEN "socket" ELSE "opening"]
  /\ UNCHANGED <<kind, opts, listener, raw, bytes>>

(* The end of Dial: the TLS handshake, the ws response, OpenStreamSync.    *)
(* What is on its way arrives, also if the handler has closed its socket.  *)
Opened(c, k) ==
  /\ dial[c] = "opening"
  /\ kind = "quic" \/ srv[c] \in {"handler", "owned", "ended"}
  /\ k <= (IF kind = "ws" THEN Len(flight[c]["down"]) ELSE 0)
  /\ TakeBuffered(c, "down", k)
  /\ dial' = [dial EXCEPT ![c] = "socket"]
  /\ UNCHANGED <<kind, opts, listener, srv, cend, raw, sent>>

(* Dial fails, at its timeout if not before, and closes what it opened.    *)
DialFails(c) ==
  /\ dial[c] \in {"connecting", "opening"} /\ ~raw[c]
  /\ dial' = [dial EXCEPT ![c] = "failed"]
  /\ cend' = [cend EXCEPT ![c] = FALSE]
  /\ UNCHANGED <<kind, opts, listener, srv, raw, bytes>>

ClientLeaves(c) ==        \* Close, or a raw client breaks off
  /\ dial[c] = "socket" \/ (raw[c] /\ dial[c] = "opening")
  /\ dial' = [dial EXCEPT ![c] = "gone"]
  /\ cend' = [cend EXCEPT ![c] = FALSE]
  /\ UNCHANGED <<kind, opts, listener, srv, raw, bytes>>

(* A byte: from the socket, or pipelined behind a raw client's request.    *)
SendByte(c, dir) ==
  /\ sent[c][dir] < MaxBytes[c][dir]
  /\ IF dir = "down" THEN srv[c] \in {"handler", "owned"}
     ELSE dial[c] = "socket" \/ (raw[c] /\ kind = "ws" /\ dial[c] = "opening")
  /\ sent' = [sent EXCEPT ![c][dir] = @ + 1]
  /\ flight' = [flight EXCEPT ![c][dir] = Append(@, sent[c][dir] + 1)]
  /\ UNCHANGED <<kind, opts, listener, srv, dial, cend, raw, extra>>

-----------------------------------------------------------------------------
Init ==
  /\ kind \in Kinds
  /\ opts \in [secure : BOOLEAN, config : BOOLEAN]
  /\ lst = "none" /\ port = FALSE /\ loop = "none"
  /\ tempDelay = 0 /\ errors = 0
  /\ srv = [c \in Conns |-> "none"] /\ dial = [c \in Conns |-> "none"]
  /\ cend = [c \in Conns |-> FALSE] /\ raw = [c \in Conns |-> FALSE]
  /\ sent = [c \in Conns |-> [dir \in Dirs |-> 0]]
  /\ flight = [c \in Conns |-> [dir \in Dirs |-> <<>>]]
  /\ extra = [c \in Conns |-> [dir \in Dirs |-> <<>>]]

LoopStep == Serve \/ Wake \/ AcceptReturns \/ \E c \in Conns : AcceptConn(c)

Next ==
  \/ Listen \/ ListenRefused \/ AcceptCall \/ ListenerClose
  \/ LoopStep \/ AcceptTemporary \/ AcceptPermanent
  \/ \E c \in Conns :
       \/ \E k \in 0..Len(flight[c]["up"]) : Upgrade(c, k)
       \/ UpgradeFails(c) \/ HttpError(c) \/ HttpBody(c) \/ HttpExpires(c)
       \/ AcceptStream(c) \/ AcceptStreamFails(c) \/ HandlerEnds(c)
       \/ DialCall(c) \/ Connected(c) \/ DialFails(c) \/ ClientLeaves(c)
       \/ \E k \in 0..Len(flight[c]["down"]) : Opened(c, k)
       \/ \E dir \in Dirs : SendByte(c, dir)

Spec == Init /\ [][Next]_vars

(* The accept loop runs, and the timers of the Timed connections fire: of  *)
(* http.Server, of the wait for a stream, of Dial; the server is told when *)
(* a client left.  No client and no handler owes anything, and for a body  *)
(* that is withheld there is no timer.                                     *)
FairSpec ==
  /\ Spec
  /\ WF_vars(LoopStep)
  /\ \A c \in Timed :
       WF_vars(HttpExpires(c) \/ AcceptStreamFails(c)) /\ WF_vars(DialFails(c))

-----------------------------------------------------------------------------
TypeOK ==
  /\ kind \in Kinds /\ opts \in [secure : BOOLEAN, config : BOOLEAN]
  /\ lst \in {"none", "refused", "open", "closed"} /\ port \in BOOLEAN
  /\ loop \in {"none", "store", "accept", "sleep", "returned", "failed"}
  /\ tempDelay \in 0..MaxDelay /\ errors \in 0..MaxErrors
  /\ srv \in [Conns -> {"none", "backlog", "setup", "answered", "draining",
                        "handler", "owned", "ended", "closed"}]
  /\ dial \in [Conns -> {"none", "connecting", "opening", "socket", "failed",
                         "gone"}]
  /\ cend \in [Conns -> BOOLEAN] /\ raw \in [Conns -> BOOLEAN]
  /\ sent \in [Conns -> [Dirs -> Nat]]
  /\ flight \in [Conns -> [Dirs -> Seq(Nat)]]
  /\ extra \in [Conns -> [Dirs -> Seq(Nat)]]

(* A listener that was refused or closed holds no port, also when it was   *)
(* closed before Accept or while Accept was about to call Serve            *)
(* (src/transports/ws/listener.go:33-35).                                  *)
PortReleased == lst \in {"refused", "closed"} => ~port

(* The back-off depends on the errors since the last connection only, and  *)
(* stops growing at its cap (src/transports/tcp/listener.go:40-54).        *)
BackoffFollowsErrors ==
  tempDelay = IF errors = 0 THEN 0
              ELSE Smaller(FirstDelay * 2^(errors - 1), MaxDelay)

(* A socket reads what the peer sent, from the first byte and in order,    *)
(* however much of it came with the handshake                              *)
(* (src/transports/ws/listener.go:69-71 and transport.go:88-89).           *)
FirstBytesKept ==
  \A c \in Conns, dir \in Dirs :
    (IF dir = "up" THEN srv[c] ELSE dial[c]) \in {"handler", "owned", "socket"}
    => extra[c][dir] \o flight[c][dir] = [i \in 1..sent[c][dir] |-> i]

(* Everything that was begun comes to an end, whatever clients do and      *)
(* leave undone.  An accepted connection gets to the handler or is closed  *)
(* when its timer fires, also when the listener closes first               *)
(* (src/transports/ws/listener.go:61, quic/listener.go:15 and 41), except  *)
(* that a raw ws client may stay and withhold the body of a request that   *)
(* is no upgrade: the http.Server has no timeout for it                    *)
(* (src/transports/ws/transport.go:131-139).  Dial returns a socket or     *)
(* leaves nothing open.                                                    *)
(*                                                                         *)
(* The accept loop waits for nobody: a connection in the backlog is        *)
(* accepted although others stay silent and their timers do not fire       *)
(* (quic/listener.go:37), and although accepting has failed for a time     *)
(* (tcp/listener.go:35-40).  Only Close or a permanent error ends it, and  *)
(* Close does.                                                             *)
EverySetupEnds ==
  /\ \A c \in Timed :
       /\ (srv[c] \notin {"none", "backlog"})
          ~> \/ srv[c] \in {"handler", "owned", "ended", "closed"}
             \/ srv[c] = "draining" /\ cend[c]
       /\ (dial[c] \in {"connecting", "opening"} /\ ~raw[c])
          ~> \/ dial[c] \in {"socket", "gone"}
             \/ dial[c] = "failed" /\ ~cend[c]
  /\ \A c \in Conns :
       (srv[c] = "backlog" /\ loop \in {"accept", "sleep"})
       ~> (srv[c] # "backlog" \/ loop = "failed")
  /\ (lst = "closed" /\ loop # "none") ~> (loop \in {"returned", "failed"})
=============================================================================
