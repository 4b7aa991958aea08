------------------------------- MODULE Server -------------------------------
(***************************************************************************)
(* The TCP server and the main loop (ethernet.c), on the part of lwIP that *)
(* calls it (tcp.c, tcp_in.c).  ethernet_next_packet polls the interface   *)
(* until a pbuf waits in es.pin; lwIP and the server's callbacks run only  *)
(* inside that loop, one frame per iteration.  Frames come from clients    *)
(* that connect, send, close and fail in any order.  A pbuf carries one    *)
(* command, and the receive window is counted in pbufs.                    *)
(***************************************************************************)
EXTENDS Pbuf

CONSTANTS
  Clients,
  NoClient,         \* es.pcb == NULL
  TCP_WND,          \* the receive window of a new connection
  MEMP_NUM_TCP_PCB, \* connections lwIP can hold
  MaxSegment,       \* bound: pbufs in one segment
  MaxBlock          \* bound: further pbufs of one block of data

ASSUME ServerAssumption ==
  /\ NoClient \notin Clients
  /\ {TCP_WND, MEMP_NUM_TCP_PCB, MaxSegment, MaxBlock} \subseteq Nat \ {0}

VARIABLES
  (* lwIP *)
  pcb,      \* the connection of a client: state, receive window, and
            \* whether its accept callback is set; or NoPcb
  older,    \* <<c, d>>: the pcb of c has been inactive longer than d's
  ref,      \* reference counts of the pbufs
  (* the server: es and g_pcb *)
  es_pcb,   \* the connection replies are written to
  es_state, \* es.state; ES_CLOSING ends within server_recv_callback
  pin,      \* es.pin
  accept,   \* g_pcb->accept is server_accept_callback, not NULL
  (* the main loop *)
  pc,       \* "poll": in ethernet_next_packet, "packet": behind it
  need,     \* pbufs ethernet_copy_data still has to fetch
  command_execute_flag,
  (* history *)
  asker,      \* the client whose block ethernet_copy_data fetches; NoClient
              \* without one, or if a connection was accepted since
  failed,     \* an accepted connection ended with server_err_callback
  overlapped, \* a connection was accepted while es_pcb was set
  leaked      \* a packet was chained behind another, or es.pin overwritten

tcpVars == <<pcb, older>>
esVars == <<es_pcb, es_state, accept>>
loopVars == <<need, command_execute_flag, asker>>
history == <<failed, overlapped, leaked>>
vars == <<tcpVars, ref, esVars, pin, pc, loopVars, history>>

(* MODE EXECute, or anything else, which may begin a block of data.        *)
Kinds == {"execute", "other"}
Pbufs == [buf : Buffers, kind : Kinds, from : Clients]

Pcb(s, w, a) == [state |-> s, rcv_wnd |-> w, accept |-> a]
NoPcb == Pcb("CLOSED", 0, FALSE)
Pcbs == [state : {"CLOSED", "SYN_RCVD", "ESTABLISHED", "LAST_ACK"},
         rcv_wnd : 0 .. TCP_WND, accept : BOOLEAN]

TypeOK ==
  /\ pcb \in [Clients -> Pcbs]
  /\ older \in SUBSET (Clients \X Clients)
  /\ ref \in [Buffers -> Nat]
  /\ {es_pcb, asker} \subseteq Clients \cup {NoClient}
  /\ es_state \in {"NONE", "ACCEPTED", "RECEIVING"}
  /\ pin \in Seq(Pbufs)
  /\ accept \in BOOLEAN
  /\ pc \in {"poll", "packet"}
  /\ need \in 0 .. MaxBlock
  /\ {command_execute_flag, failed, overlapped, leaked} \subseteq BOOLEAN

Init ==
  /\ pcb = [c \in Clients |-> NoPcb]
  /\ older = {}
  /\ ref = [b \in Buffers |-> 0]
  /\ es_pcb = NoClient
  /\ es_state = "NONE"
  /\ pin = <<>>
  /\ accept = TRUE
  /\ pc = "poll"
  /\ need = 0
  /\ command_execute_flag = FALSE
  /\ asker = NoClient
  /\ failed = FALSE
  /\ overlapped = FALSE
  /\ leaked = FALSE

State(c) == pcb[c].state
Open == {c \in Clients : State(c) /= "CLOSED"}

(* tcp_active_pcbs and pcb->tmr: a segment for c makes it the most         *)
(* recently active one; a freed pcb leaves the list.                       *)
Without(o, c) == {p \in o : p[1] /= c /\ p[2] /= c}
Touch(c) == Without(older, c) \cup {<<d, c>> : d \in Open \ {c}}

-----------------------------------------------------------------------------
(* One iteration of the loop in ethernet_next_packet.                      *)

(* low_level_input: a frame that finds no pbuf is lost, the sender repeats *)
(* it.  The frame's own pbuf is free again unless it carried data.         *)
Frame == pc = "poll" /\ Free(ref) /= {}

LeaveIfPacket == pc' = IF pin' = <<>> THEN "poll" ELSE "packet"

(* tcp_listen_input: the new pcb gets the accept callback of this moment.  *)
(* tcp_alloc aborts the connection that was inactive longest when the pool *)
(* of pcbs is empty; server_err_callback, called for an accepted one,      *)
(* changes nothing (mem_free of memory that is not in the heap).           *)
Syn(c) ==
  /\ Frame
  /\ State(c) = "CLOSED"
  /\ LET new == [pcb EXCEPT ![c] = Pcb("SYN_RCVD", TCP_WND, accept)]
     IN  \/ /\ Cardinality(Open) < MEMP_NUM_TCP_PCB
            /\ pcb' = new
            /\ older' = Touch(c)
            /\ failed' = failed
         \/ /\ Cardinality(Open) >= MEMP_NUM_TCP_PCB
            /\ \E v \in Open :
                 /\ \A d \in Open \ {v} : <<v, d>> \in older
                 /\ pcb' = [new EXCEPT ![v] = NoPcb]
                 /\ older' = Without(Touch(c), v)
                 /\ failed' = (failed \/ State(v) = "ESTABLISHED")
  /\ UNCHANGED <<ref, esVars, pin, loopVars, overlapped, leaked>>
  /\ LeaveIfPacket

(* Mutant of server_accept_callback: es.pin is kept.                       *)
server_accept_callback_pin_kept(c) ==
  /\ es_state' = "ACCEPTED"
  /\ es_pcb' = c
  /\ accept' = FALSE
  /\ asker' = NoClient
  /\ overlapped' = (overlapped \/ es_pcb /= NoClient)
  /\ UNCHANGED <<pin, leaked>>

(* server_accept_callback: es.pin is overwritten, not freed.               *)
server_accept_callback(c) ==
  /\ es_state' = "ACCEPTED"
  /\ es_pcb' = c
  /\ pin' = <<>>
  /\ accept' = FALSE
  /\ asker' = NoClient
  /\ overlapped' = (overlapped \/ es_pcb /= NoClient)
  /\ leaked' = (leaked \/ pin /= <<>>)

(* tcp_process in SYN_RCVD: without an accept callback the connection is   *)
(* aborted.                                                                *)
Ack(c) ==
  /\ Frame
  /\ State(c) = "SYN_RCVD"
  /\ \/ /\ pcb[c].accept
        /\ pcb' = [pcb EXCEPT ![c] = Pcb("ESTABLISHED", TCP_WND, TRUE)]
        /\ older' = Touch(c)
        /\ server_accept_callback(c)
     \/ /\ ~pcb[c].accept
        /\ pcb' = [pcb EXCEPT ![c] = NoPcb]
        /\ older' = Without(older, c)
        /\ UNCHANGED <<esVars, pin, asker, overlapped, leaked>>
  /\ UNCHANGED <<ref, need, command_execute_flag, failed>>
  /\ LeaveIfPacket

(* Mutant of server_recv_callback: data of a connection that es does not   *)
(* know is not freed.                                                      *)
server_recv_callback_kept(p, ref1) ==
  /\ es_state' = IF es_state = "ACCEPTED" THEN "RECEIVING" ELSE es_state
  /\ pin' = IF es_state = "RECEIVING" THEN pin \o p
            ELSE IF es_state = "ACCEPTED" THEN p ELSE pin
  /\ ref' = IF es_state = "RECEIVING" /\ pin /= <<>>
              THEN pbuf_ref(ref1, p[1]) ELSE ref1
  /\ leaked' = (leaked \/ (es_state = "RECEIVING" /\ pin /= <<>>))

(* server_recv_callback with data p, ref1 being the counts with p in use:  *)
(* pbuf_chain takes a reference of its own on p, and nobody drops the one  *)
(* the callback was given.                                                 *)
server_recv_callback(p, ref1) ==
  \/ /\ es_state = "ACCEPTED"
     /\ es_state' = "RECEIVING"
     /\ pin' = p
     /\ ref' = ref1
     /\ leaked' = leaked
  \/ /\ es_state = "RECEIVING"
     /\ es_state' = es_state
     /\ pin' = pin \o p
     /\ ref' = IF pin /= <<>> THEN pbuf_ref(ref1, p[1]) ELSE ref1
     /\ leaked' = (leaked \/ pin /= <<>>)
  \/ /\ es_state = "NONE"
     /\ ref' = pbuf_free(ref1, p)
     /\ UNCHANGED <<es_state, pin, leaked>>

(* tcp_receive: data inside the window.  Nothing ever calls tcp_recved, so *)
(* the window only shrinks.                                                *)
Data(c, kinds) ==
  LET n == Len(kinds) IN
  /\ Frame
  /\ State(c) = "ESTABLISHED"
  /\ n <= pcb[c].rcv_wnd
  /\ \E t \in pbuf_alloc(ref, n) :
       server_recv_callback(
         [i \in 1 .. n |-> [buf |-> t[i], kind |-> kinds[i], from |-> c]],
         [b \in Buffers |-> IF \E i \in 1 .. n : t[i] = b THEN 1 ELSE ref[b]])
  /\ pcb' = [pcb EXCEPT ![c] = Pcb("ESTABLISHED", pcb[c].rcv_wnd - n, TRUE)]
  /\ older' = Touch(c)
  /\ UNCHANGED <<es_pcb, accept, loopVars, failed, overlapped>>
  /\ LeaveIfPacket

(* Mutant of server_connection_close: new connections stay rejected.       *)
server_connection_close_deaf ==
  /\ es_pcb' = NoClient
  /\ es_state' = "NONE"
  /\ accept' = accept

(* Mutant of server_connection_close: es.pcb keeps the closed connection.  *)
server_connection_close_pcb_kept ==
  /\ es_pcb' = es_pcb
  /\ es_state' = "NONE"
  /\ accept' = TRUE

server_connection_close ==
  /\ es_pcb' = NoClient
  /\ es_state' = "NONE"
  /\ accept' = TRUE

(* A FIN, if it is inside the window: server_recv_callback without data    *)
(* closes the connection.  tcp_close answers with a RST and frees the pcb  *)
(* at once when data was received and not acknowledged by tcp_recved.      *)
Fin(c) ==
  /\ Frame
  /\ State(c) = "ESTABLISHED"
  /\ \/ /\ pcb[c].rcv_wnd = TCP_WND
        /\ pcb' = [pcb EXCEPT ![c] = Pcb("LAST_ACK", TCP_WND, TRUE)]
        /\ older' = Touch(c)
     \/ /\ pcb[c].rcv_wnd \in 1 .. TCP_WND - 1
        /\ pcb' = [pcb EXCEPT ![c] = NoPcb]
        /\ older' = Without(older, c)
  /\ server_connection_close
  /\ UNCHANGED <<ref, pin, loopVars, history>>
  /\ LeaveIfPacket

Freed(c) ==
  /\ pcb' = [pcb EXCEPT ![c] = NoPcb]
  /\ older' = Without(older, c)
  /\ failed' = (failed \/ State(c) = "ESTABLISHED")
  /\ UNCHANGED <<ref, esVars, pin, loopVars, overlapped, leaked>>
  /\ LeaveIfPacket

(* A RST: server_err_callback for an accepted connection, and the pcb is   *)
(* freed.  A connection whose peer no longer acknowledges ends likewise.   *)
Rst(c) == Frame /\ State(c) /= "CLOSED" /\ Freed(c)

(* tcp_slowtmr gives up on a handshake or on the acknowledgement of our    *)
(* FIN; that acknowledgement itself frees the pcb as well.                 *)
Slowtmr(c) ==
  pc = "poll" /\ State(c) \in {"SYN_RCVD", "LAST_ACK"} /\ Freed(c)

(* An iteration without a frame, when a pbuf is waiting already.           *)
NoFrame ==
  /\ pc = "poll"
  /\ pin /= <<>>
  /\ pc' = "packet"
  /\ UNCHANGED <<tcpVars, ref, esVars, pin, loopVars, history>>

-----------------------------------------------------------------------------
(* The main loop behind ethernet_next_packet.                              *)

(* Mutant of ethernet_clear_packet: the rest of the chain gets no          *)
(* reference of its own before the head is freed.                          *)
ethernet_clear_packet_no_ref ==
  /\ pin' = Tail(pin)
  /\ ref' = pbuf_free(ref, pin)

(* Mutant of ethernet_clear_packet: es.pin does not advance.               *)
ethernet_clear_packet_stays == UNCHANGED <<pin, ref>>

(* ethernet_clear_packet: on to the next pbuf of the chain.                *)
ethernet_clear_packet ==
  /\ pin' = Tail(pin)
  /\ ref' = pbuf_free(IF Tail(pin) = <<>> THEN ref ELSE pbuf_ref(ref, pin[2]),
                      pin)

(* The next call of ethernet_next_packet.                                  *)
NextPacket ==
  /\ ethernet_clear_packet
  /\ pc' = "poll"
  /\ UNCHANGED <<tcpVars, esVars, history>>

(* scpi_process of one pbuf: what it carries is answered at once, or it    *)
(* begins a block of data that does not end in it, and ethernet_copy_data  *)
(* fetches more before the answer.                                         *)
scpi_process ==
  /\ need' \in IF Head(pin).kind = "other" THEN 0 .. MaxBlock ELSE {0}
  /\ asker' = IF need' > 0 THEN Head(pin).from ELSE NoClient
  /\ NextPacket

(* Mutant of Execute: the flag is not reset, and the loop goes on.         *)
Execute_flag_stays ==
  /\ pc = "packet"
  /\ need = 0
  /\ command_execute_flag
  /\ command_execute_flag' = TRUE
  /\ scpi_process

(* ethernet_loop: commands_execute runs before the packet is processed.    *)
Execute ==
  /\ pc = "packet"
  /\ need = 0
  /\ command_execute_flag
  /\ command_execute_flag' = FALSE
  /\ UNCHANGED <<tcpVars, ref, esVars, pin, pc, need, asker, history>>

Process ==
  /\ pc = "packet"
  /\ need = 0
  /\ ~command_execute_flag
  /\ command_execute_flag' = (Head(pin).kind = "execute")
  /\ scpi_process

(* ethernet_copy_data takes the pbuf for data, whatever it is.  Behind the *)
(* last one it returns, and PARallel:DATA is answered.                     *)
Copy ==
  /\ pc = "packet"
  /\ need > 0
  /\ need' = need - 1
  /\ asker' = IF need' = 0 THEN NoClient ELSE asker
  /\ command_execute_flag' = command_execute_flag
  /\ NextPacket

Loop == NoFrame \/ Execute \/ Process \/ Copy

Segments == UNION {[1 .. k -> Kinds] : k \in 1 .. MaxSegment}

Net(c) ==
  \/ Syn(c)
  \/ Ack(c)
  \/ \E kinds \in Segments : Data(c, kinds)
  \/ Fin(c)
  \/ Rst(c)
  \/ Slowtmr(c)

Next == Loop \/ \E c \in Clients : Net(c)

Spec == Init /\ [][Next]_vars

(* The processor runs.  Nothing is assumed of the clients.                 *)
FairSpec == Spec /\ WF_vars(Loop)

-----------------------------------------------------------------------------
(* The pbuf the parser or ethernet_copy_data reads exists, and no pbuf of  *)
(* es.pin is back in the pool or linked twice, however packets, resets and *)
(* new connections interleave with ethernet_clear_packet.                  *)
NoUseAfterFree ==
  /\ pc = "packet" => pin /= <<>>
  /\ \A i \in DOMAIN pin : ref[pin[i].buf] > 0
  /\ \A i, j \in DOMAIN pin : pin[i].buf = pin[j].buf => i = j

(* Every pbuf that is not in es.pin is free, unless pbuf_chain was used or *)
(* a new connection overwrote es.pin: those are the only two leaks.        *)
PoolComplete == ~leaked => Free(ref) = Buffers \ Held(pin)

(* Replies go to a connection that exists, as long as no accepted one ends *)
(* with server_err_callback.                                               *)
ReplyToOpen ==
  ~failed /\ es_pcb /= NoClient => State(es_pcb) = "ESTABLISHED"

(* New connections are accepted exactly when none is open, as long as no   *)
(* accepted one ends with server_err_callback and no two handshakes that   *)
(* began before the first was accepted are both completed.                 *)
AcceptIffFree ==
  ~failed /\ ~overlapped =>
    (accept <=> \A c \in Clients : State(c) /= "ESTABLISHED")

(* A command is answered to the client that sent it, or not at all: what   *)
(* waits in es.pin never outlives the connection into the next one, and a  *)
(* PARallel:DATA that waits in ethernet_copy_data is answered to another   *)
(* client only if that one was accepted in the meantime.                   *)
ReplyToSender ==
  ~overlapped /\ es_pcb /= NoClient =>
    /\ \A i \in DOMAIN pin : pin[i].from = es_pcb
    /\ asker \in {es_pcb, NoClient}

(* A connection from which everything was processed can receive a full     *)
(* window (tcp_recved).                                                    *)
WindowReopened ==
  pc = "poll" /\ pin = <<>> =>
    \A c \in Clients : State(c) = "ESTABLISHED" => pcb[c].rcv_wnd = TCP_WND

(* Without an open connection new ones are accepted                        *)
(* (server_accept_callback).                                               *)
AcceptWhenFree ==
  (\A c \in Clients : State(c) /= "ESTABLISHED") => accept

(* Every pbuf in es.pin is processed, or dropped with its connection,      *)
(* whatever arrives in the meantime.                                       *)
PacketsProcessed == \A b \in Buffers : b \in Held(pin) ~> b \notin Held(pin)

(* MODE EXECute is obeyed, or no further packet ever leaves                *)
(* ethernet_next_packet: the flag is looked at only behind it.             *)
ExecuteServed ==
  command_execute_flag ~> (~command_execute_flag \/ [](pc = "poll"))
=============================================================================
