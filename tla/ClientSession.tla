--------------------------- MODULE ClientSession ---------------------------
(***************************************************************************)
(* One connection as its worker sees it (handle_client): the first packet, *)
(* the main loop with its two timeouts, the checks every packet passes in  *)
(* their order, and the ways out, all through cleanup_client.              *)
(*                                                                         *)
(* The peer may send any packet at any moment, fall silent or hang up; its *)
(* own conduct is recorded so that properties can speak of a client that   *)
(* does what client.c does.  What a request does to the raid is RaidServer.*)
(*                                                                         *)
(* The clock counts the seconds of time(NULL), starting at 1: 0 means "no  *)
(* heartbeat yet".  Time does not pass while the worker has something to   *)
(* do: it handles a packet or a timeout within the second.                 *)
(***************************************************************************)
EXTENDS ReplayProtection

CONSTANTS
    RECV_TIMEOUT,        \* seconds select() waits for a packet (5)
    HEARTBEAT_TIMEOUT,   \* seconds without a heartbeat (30)
    RATE,                \* requests per second the limiter allows (5)
    Watched,             \* the sequence number a property is about, any of them
    EndOfTime            \* bound on the clock

ASSUME SessionAssumption ==
    /\ RECV_TIMEOUT \in Nat \ {0}
    /\ HEARTBEAT_TIMEOUT \in Nat \ {0}
    /\ RATE \in Nat \ {0}
    /\ Watched \in SeqNum
    /\ EndOfTime \in Nat \ {0}

VARIABLES
    now,                 \* time(NULL)
    phase,               \* where handle_client is
    wait_since,          \* when the present wait for a packet began
    last_heartbeat,      \* last_heartbeat, 0 until there is one
    rp,                  \* replay protection
    request_count, window_start,   \* rate limiter
    player_id,           \* -1 until handle_join got one
    online,              \* what this connection adds to online_count
    (* History. *)
    why,                 \* what ended the session
    sent_seq,            \* the last sequence number the client used
    sent_now,            \* how many packets it sent this second
    spoke,               \* when it last sent something
    beat,                \* when it last sent a heartbeat, 0 if never
    proper,              \* it sent nothing client.c would not send
    passed               \* Watched has passed since the numbers last rolled over

serverVars == <<phase, wait_since, last_heartbeat, rp, request_count,
                window_start, player_id, online, why>>
clientVars == <<sent_seq, sent_now, spoke, beat, proper, passed>>
sessionVars == <<now, serverVars, clientVars>>

(* rate_limiter_init(&rl, 5, 1); the limiter reads the same clock.         *)
RL == INSTANCE RateLimiter WITH
    max_requests <- RATE, window_seconds <- 1, TicksPerSecond <- 1,
    MaxTicks <- EndOfTime,
    tick <- now, closed <- FALSE, granted <- << >>

Op == {"JOIN", "ATTACK", "HEARTBEAT", "LEAVE", "other"}

(* What can be wrong with a packet besides its opcode and number: a length *)
(* outside the allowed range, a wrong checksum, a length its opcode does   *)
(* not have, a username that is not allowed.                               *)
Fault == {"none", "length", "checksum", "size", "username"}

Packet == {p \in [op : Op, seq : SeqNum, fault : Fault] :
             /\ p.fault = "username" => p.op = "JOIN"
             /\ p.fault = "size" => p.op \in {"JOIN", "ATTACK"}}

Reason == {"open", "broken", "not_join", "username", "silent", "no_heartbeat",
           "rate", "opcode", "size", "left", "gone"}

SessionInit ==
    /\ now = 1
    /\ phase = "first"
    /\ wait_since = 1
    /\ last_heartbeat = 0
    /\ rp = ReplayInit
    /\ request_count = 0
    /\ window_start = 1
    /\ player_id = -1
    /\ online = 0
    /\ why = "open"
    /\ sent_seq = 0
    /\ sent_now = 0
    /\ spoke = 1
    /\ beat = 0
    /\ proper = TRUE
    /\ passed = FALSE

-----------------------------------------------------------------------------
(* cleanup_client and exit(0).  The player is taken off the count only if  *)
(* handle_join had got an id; id is the value player_id has by then.       *)
Exit(reason, id, counted) ==
    /\ phase' = "closed"
    /\ why' = reason
    /\ player_id' = id
    /\ online' = IF id >= 0 THEN counted - 1 ELSE counted
    /\ UNCHANGED wait_since

(* recv_packet succeeds: the length is in range, the number passes the     *)
(* replay protection, the checksum fits.  The number is remembered even if *)
(* the checksum then fails.                                                *)
Received(p) ==
    /\ p.fault # "length"
    /\ Accepts(rp, p.seq)
    /\ p.fault # "checksum"

RememberSeq(p) ==
    rp' = IF p.fault = "length" THEN rp ELSE Validated(rp, p.seq)

(* History: whether Watched has passed the replay protection; a number     *)
(* that passes and is not greater than the last is taken for a rollover.   *)
Watch(p) ==
    passed' = IF p.fault # "length" /\ Accepts(rp, p.seq)
              THEN \/ p.seq = Watched
                   \/ passed /\ p.seq > rp.last_seq_num
              ELSE passed

(* What client.c does: well-formed packets with consecutive numbers, JOIN  *)
(* once and first, no more packets in a second than the limiter allows.    *)
Send(p) ==
    /\ sent_seq' = p.seq
    /\ sent_now' = IF sent_now > RATE THEN sent_now ELSE sent_now + 1
    /\ spoke' = now
    /\ beat' = IF p.op = "HEARTBEAT" THEN now ELSE beat
    /\ proper' = (/\ proper
                  /\ p.fault = "none"
                  /\ p.op # "other"
                  /\ (p.op = "JOIN") <=> (phase = "first")
                  /\ rp.initialized => p.seq = Successor(sent_seq)
                  /\ sent_now < RATE)

-----------------------------------------------------------------------------
(* The first packet.  There is no timeout on it.                           *)

(* Mutant of JoinAnswered: out_player_id is set after the reply is sent.   *)
JoinAnsweredLateId ==
    \/ /\ phase' = "top"
       /\ player_id' = 1
       /\ online' = 1
       /\ UNCHANGED <<wait_since, why>>
    \/ Exit("gone", -1, 1)

(* handle_join: count the player, then answer; the answer may fail.        *)
JoinAnswered ==
    \/ /\ phase' = "top"
       /\ player_id' = 1
       /\ online' = 1
       /\ UNCHANGED <<wait_since, why>>
    \/ Exit("gone", 1, 1)

FirstPacket(p) ==
    /\ phase = "first"
    /\ Send(p)
    /\ RememberSeq(p) /\ Watch(p)
    /\ \/ ~Received(p) /\ Exit("broken", player_id, online)
       \/ Received(p) /\ p.op # "JOIN" /\ Exit("not_join", player_id, online)
       \/ /\ Received(p) /\ p.op = "JOIN" /\ p.fault = "username"
          /\ Exit("username", player_id, online)
       \/ Received(p) /\ p.op = "JOIN" /\ p.fault # "username" /\ JoinAnswered
    /\ UNCHANGED <<now, last_heartbeat, request_count, window_start>>

-----------------------------------------------------------------------------
(* The main loop.                                                          *)

(* Mutant of HeartbeatOverdue: no heartbeat yet counts as an old one.      *)
HeartbeatOverdueAlways == now - last_heartbeat > HEARTBEAT_TIMEOUT

HeartbeatOverdue == last_heartbeat > 0 /\ now - last_heartbeat > HEARTBEAT_TIMEOUT

(* The top of the loop: the heartbeat check, then the wait begins.         *)
TopOfLoop ==
    /\ phase = "top"
    /\ \/ HeartbeatOverdue /\ Exit("no_heartbeat", player_id, online)
       \/ /\ ~HeartbeatOverdue
          /\ phase' = "recv"
          /\ wait_since' = now
          /\ UNCHANGED <<player_id, online, why>>
    /\ UNCHANGED <<now, last_heartbeat, rp, request_count, window_start, clientVars>>

Overdue == phase = "recv" /\ now - wait_since >= RECV_TIMEOUT

(* Mutant of RecvTimeout: the session goes on until the heartbeat is due.   *)
RecvTimeoutUnlessBeating ==
    /\ Overdue
    /\ \/ /\ last_heartbeat = 0 \/ HeartbeatOverdue
          /\ Exit("silent", player_id, online)
       \/ /\ last_heartbeat > 0 /\ ~HeartbeatOverdue
          /\ phase' = "top"
          /\ UNCHANGED <<wait_since, player_id, online, why>>
    /\ UNCHANGED <<now, last_heartbeat, rp, request_count, window_start, clientVars>>

(* select() times out.  Whatever last_heartbeat says, the loop ends.       *)
RecvTimeout ==
    /\ Overdue
    /\ Exit("silent", player_id, online)
    /\ UNCHANGED <<now, last_heartbeat, rp, request_count, window_start, clientVars>>

(* select() returns with a part of a packet.  The reads that follow have   *)
(* no timeout, and client.c never leaves a packet unfinished.              *)
PacketBegins ==
    /\ phase = "recv"
    /\ phase' = "reading"
    /\ spoke' = now
    /\ UNCHANGED <<now, wait_since, last_heartbeat, rp, request_count,
                   window_start, player_id, online, why, sent_seq, sent_now,
                   beat, proper, passed>>

Served ==
    /\ phase' = "top"
    /\ UNCHANGED <<wait_since, player_id, online, why>>

(* The switch on the opcode.  A JOIN that is not the first packet falls to *)
(* the default branch; a reply may fail.                                   *)
Dispatch(p) ==
    /\ \/ p.op \in {"ATTACK", "HEARTBEAT", "JOIN"} /\ Served
       \/ p.op \in {"ATTACK", "HEARTBEAT"} /\ Exit("gone", player_id, online)
       \/ p.op = "LEAVE" /\ Exit("left", player_id, online)
    /\ last_heartbeat' = IF p.op = "HEARTBEAT" THEN now ELSE last_heartbeat

(* The rest of handle_client's loop once a packet is in: rate limiter,     *)
(* opcode, size, switch.                                                   *)
Handle(p) ==
    /\ RL!CountRequest
    /\ \/ /\ \/ RL!Refused /\ Exit("rate", player_id, online)
             \/ /\ ~RL!Refused /\ p.op = "other"
                /\ Exit("opcode", player_id, online)
             \/ /\ ~RL!Refused /\ p.op # "other" /\ p.fault = "size"
                /\ Exit("size", player_id, online)
          /\ UNCHANGED last_heartbeat
       \/ ~RL!Refused /\ p.op # "other" /\ p.fault # "size" /\ Dispatch(p)

(* A packet is complete while the loop waits for one.  One that comes in   *)
(* as the timeout expires may be served.                                   *)
PacketArrives(p) ==
    /\ phase \in {"recv", "reading"}
    /\ Send(p)
    /\ RememberSeq(p) /\ Watch(p)
    /\ \/ Received(p) /\ Handle(p)
       \/ /\ ~Received(p) /\ Exit("broken", player_id, online)
          /\ UNCHANGED <<last_heartbeat, request_count, window_start>>
    /\ UNCHANGED now

(* The peer closes the connection, or an error breaks it.                  *)
Gone ==
    /\ phase \in {"first", "recv", "reading"}
    /\ Exit("gone", player_id, online)
    /\ UNCHANGED <<now, last_heartbeat, rp, request_count, window_start, clientVars>>

Tick ==
    /\ now < EndOfTime
    /\ phase \notin {"top", "closed"} /\ ~Overdue
    /\ now' = now + 1
    /\ sent_now' = 0
    /\ UNCHANGED <<serverVars, sent_seq, spoke, beat, proper, passed>>

SessionNext ==
    \/ \E p \in Packet : FirstPacket(p) \/ PacketArrives(p)
    \/ TopOfLoop \/ RecvTimeout \/ PacketBegins \/ Gone \/ Tick

SessionSpec == SessionInit /\ [][SessionNext]_sessionVars

(* The clock runs and the worker is scheduled; the peer owes nothing.      *)
SessionFairness ==
    WF_sessionVars(Tick) /\ WF_sessionVars(TopOfLoop) /\ WF_sessionVars(RecvTimeout)

SessionLiveSpec == SessionSpec /\ SessionFairness
-----------------------------------------------------------------------------
(* Properties.                                                             *)

(* Every variable keeps to its type.                                       *)
SessionTypeOK ==
    /\ now \in 1..EndOfTime /\ wait_since \in 1..now /\ spoke \in 1..now
    /\ phase \in {"first", "top", "recv", "reading", "closed"}
    /\ last_heartbeat \in 0..now /\ beat \in 0..now
    /\ rp \in ReplayState
    /\ request_count \in 0..RATE
    /\ window_start \in 1..now
    /\ player_id \in {-1, 1}
    /\ online \in {0, 1}
    /\ why \in Reason
    /\ sent_seq \in SeqNum /\ sent_now \in Nat /\ proper \in BOOLEAN
    /\ passed \in BOOLEAN

(* A client that does what client.c does is never turned away by a check:  *)
(* not by the replay protection when its numbers roll over, not by the     *)
(* limiter at the edge of a window, not by the order of the checks.  It    *)
(* leaves, breaks off, or falls silent.                                    *)
ProperClientIsServed ==
    proper /\ phase = "closed" =>
        why \in {"left", "gone", "silent", "no_heartbeat"}

(* A packet that comes again is not served again: a number that has passed *)
(* passes once more only if the numbers have moved on by half their range  *)
(* (that is taken for a rollover) or have rolled over since; then it may   *)
(* even be the last one before the rollover.                               *)
NotServedTwice ==
    [][passed /\ phase \in {"recv", "reading"} /\ phase' = "top"
        => sent_seq' # Watched \/ rp.last_seq_num - Watched >= HalfRange]_sessionVars

(* The 30 second rule looks at last_heartbeat only at the top of the loop, *)
(* which a silent client does not reach.  So it ends only sessions of      *)
(* clients that keep sending other requests, that once sent a heartbeat    *)
(* and then left it for too long; never that of an idle client.            *)
HeartbeatRuleHitsBusyClients ==
    why = "no_heartbeat" =>
        /\ sent_now > 0
        /\ beat > 0 /\ now - beat > HEARTBEAT_TIMEOUT

(* What a session adds to online_count it takes off again, whichever of    *)
(* its ends it comes to, a JOIN whose answer could not be sent included.   *)
JoinIsUndone ==
    online = IF phase \in {"first", "closed"} THEN 0 ELSE 1

(* While the loop waits for a packet the client has been silent no longer  *)
(* than RECV_TIMEOUT, whatever heartbeats it sent; and it is dropped as    *)
(* silent after that long, not before.                                     *)
DroppedAfterTimeout ==
    /\ phase \in {"top", "recv"} => now - spoke <= RECV_TIMEOUT
    /\ why = "silent" => now - spoke = RECV_TIMEOUT

(* A client that has joined and goes silent is dropped, heartbeats or not, *)
(* unless it stops in the middle of a packet.  The clock must have time    *)
(* left for the timeout.                                                   *)
SilentClientIsDropped ==
    \A t \in 1..(EndOfTime - RECV_TIMEOUT) :
        (phase \in {"top", "recv"} /\ spoke = t)
            ~> (phase \in {"reading", "closed"} \/ spoke # t)
=============================================================================
