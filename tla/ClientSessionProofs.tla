------------------------ MODULE ClientSessionProofs ------------------------
(***************************************************************************)
(* Theorems about one connection, for any timeouts, any rate and any       *)
(* number of sequence numbers.                                             *)
(***************************************************************************)
EXTENDS ClientSession, ReplayProtectionProofs

-----------------------------------------------------------------------------
(* The inductive invariant.                                                *)

(* The player is counted from the answer to JOIN to the end.               *)
Counted ==
    /\ phase = "first" => player_id = -1 /\ online = 0
    /\ phase \in {"top", "recv", "reading"} => player_id = 1 /\ online = 1
    /\ phase = "closed" => online = 0

(* The server remembers the last heartbeat sent; the loop only comes to    *)
(* its top in a second in which the client sent something.                 *)
Remembered ==
    /\ phase = "first" => last_heartbeat = 0 /\ beat = 0
    /\ phase \in {"top", "recv", "reading"} => last_heartbeat = beat
    /\ phase = "top" => sent_now > 0

(* The two ends agree on the last number, until the client errs.           *)
InStep ==
    /\ phase = "first" => ~rp.initialized
    /\ phase \in {"top", "recv", "reading"} /\ proper =>
          rp.initialized /\ rp.last_seq_num = sent_seq

(* Of the present second the limiter counts no more than were sent.        *)
WithinRate == window_start = now => request_count <= sent_now

StillOpen == phase # "closed" <=> why = "open"

SessionInv ==
    /\ SessionTypeOK /\ Counted /\ Remembered /\ InStep /\ WithinRate /\ StillOpen
    /\ ProperClientIsServed /\ HeartbeatRuleHitsBusyClients

-----------------------------------------------------------------------------
(* The parts of a step.                                                    *)

(* The limiter runs on whole seconds here.                                 *)
LEMMA LimiterStep ==
    ASSUME SessionTypeOK, WithinRate, RL!CountRequest
    PROVE  /\ request_count' \in 0..RATE /\ window_start' \in 1..now
           /\ RL!Refused => /\ window_start = now /\ request_count = RATE
                            /\ UNCHANGED <<request_count, window_start>>
           /\ request_count' <= 1 \/ (window_start = now /\ request_count' <= request_count + 1)
  <1>1. now \in Nat /\ now \div 1 = now
    BY SessionAssumption DEF SessionTypeOK
  <1>2. RL!Elapsed = now - window_start
    BY <1>1 DEF RL!Elapsed, RL!Now, RL!Seconds
  <1>3. /\ request_count \in 0..RATE /\ window_start \in 1..now /\ RATE \in Nat \ {0}
    BY SessionAssumption DEF SessionTypeOK
  <1>4. CASE RL!WindowOver
    BY <1>1, <1>2, <1>3, <1>4 DEF RL!CountRequest, RL!Refused, RL!WindowOver, RL!Now, RL!Seconds
  <1>5. CASE ~RL!WindowOver /\ ~RL!Refused
    BY <1>1, <1>2, <1>3, <1>5 DEF RL!CountRequest, RL!Refused, RL!WindowOver
  <1>6. CASE RL!Refused
    <2>1. UNCHANGED <<request_count, window_start>>
      BY <1>6 DEF RL!CountRequest, RL!Refused, RL!limiterVars
    <2>2. ~(now - window_start >= 1) /\ request_count >= RATE
      BY <1>2, <1>6 DEF RL!Refused, RL!WindowOver
    <2> QED
      BY <1>1, <1>3, <2>1, <2>2
  <1> QED
    BY <1>4, <1>5, <1>6

(* What a packet does to the record of the client's conduct.               *)
LEMMA SendStep ==
    ASSUME SessionTypeOK, NEW p \in Packet, Send(p)
    PROVE  /\ sent_seq' = p.seq /\ p.seq \in SeqNum /\ sent_now' \in Nat \ {0}
           /\ sent_now > RATE \/ sent_now' = sent_now + 1
           /\ sent_now' >= sent_now
           /\ spoke' = now
           /\ beat' = IF p.op = "HEARTBEAT" THEN now ELSE beat
           /\ proper' \in BOOLEAN
           /\ proper' => /\ proper /\ p.fault = "none" /\ p.op # "other" /\ sent_now < RATE
                         /\ p.op = "JOIN" <=> phase = "first"
                         /\ rp.initialized => p.seq = Successor(sent_seq)
  <1>1. p.seq \in SeqNum
    BY DEF Packet
  <1>2. sent_now \in Nat /\ RATE \in Nat
    BY SessionAssumption DEF SessionTypeOK
  <1>3. sent_now' = IF sent_now > RATE THEN sent_now ELSE sent_now + 1
    BY DEF Send
  <1>4. /\ sent_now' \in Nat \ {0} /\ sent_now' >= sent_now
        /\ sent_now > RATE \/ sent_now' = sent_now + 1
    BY <1>2, <1>3
  <1>5. proper' = (/\ proper
                   /\ p.fault = "none"
                   /\ p.op # "other"
                   /\ (p.op = "JOIN") <=> (phase = "first")
                   /\ rp.initialized => p.seq = Successor(sent_seq)
                   /\ sent_now < RATE)
    BY Zenon DEF Send
  <1>6. proper' \in BOOLEAN
    BY <1>5, Zenon
  <1>7. proper' => /\ proper /\ p.fault = "none" /\ p.op # "other" /\ sent_now < RATE
                   /\ p.op = "JOIN" <=> phase = "first"
                   /\ rp.initialized => p.seq = Successor(sent_seq)
    BY <1>5, Zenon
  <1>8. /\ sent_seq' = p.seq /\ spoke' = now
        /\ beat' = IF p.op = "HEARTBEAT" THEN now ELSE beat
    BY DEF Send
  <1> QED
    BY <1>1, <1>4, <1>6, <1>7, <1>8, Zenon

LEMMA RememberStep ==
    ASSUME SessionTypeOK, NEW p \in Packet, RememberSeq(p)
    PROVE  /\ rp' \in ReplayState
           /\ Received(p) => rp' = [last_seq_num |-> p.seq, initialized |-> TRUE]
  BY ValidatedType DEF SessionTypeOK, RememberSeq, Received, Validated, Packet

LEMMA WatchStep ==
    ASSUME SessionTypeOK, NEW p \in Packet, Watch(p)
    PROVE  passed' \in BOOLEAN
  <1>1. CASE p.fault # "length" /\ Accepts(rp, p.seq)
    BY <1>1, Zenon DEF Watch
  <1>2. CASE ~(p.fault # "length" /\ Accepts(rp, p.seq))
    BY <1>2, Zenon DEF Watch, SessionTypeOK
  <1> QED
    BY <1>1, <1>2

(* A proper client's packet is received.                                   *)
LEMMA ProperReceived ==
    ASSUME SessionTypeOK, InStep, phase # "closed", NEW p \in Packet, Send(p), proper'
    PROVE  Received(p)
  <1>1. proper /\ p.fault = "none" /\ (rp.initialized => p.seq = Successor(sent_seq))
    BY SendStep
  <1>2. CASE ~rp.initialized
    BY <1>1, <1>2 DEF Received, Accepts
  <1>3. CASE rp.initialized
    <2>1. phase \in {"top", "recv", "reading"}
      BY <1>3 DEF InStep, SessionTypeOK
    <2>2. rp.last_seq_num = sent_seq /\ sent_seq \in SeqNum /\ p.seq = Successor(sent_seq)
      BY <1>1, <1>3, <2>1 DEF InStep, SessionTypeOK
    <2>3. Accepts([last_seq_num |-> sent_seq, initialized |-> TRUE], p.seq)
      BY <2>2, NextNumberPasses
    <2>4. Accepts(rp, p.seq)
      BY <1>3, <2>2, <2>3 DEF Accepts
    <2> QED
      BY <1>1, <2>4 DEF Received
  <1> QED
    BY <1>2, <1>3

(* Every end undoes the join, if there was one.                            *)
LEMMA ExitStep ==
    ASSUME NEW reason \in Reason, Counted, SessionTypeOK,
           NEW id \in {-1, 1}, NEW counted \in {0, 1},
           id = 1 <=> counted = 1,
           Exit(reason, id, counted)
    PROVE  /\ phase' = "closed" /\ why' = reason /\ player_id' = id /\ online' = 0
           /\ wait_since' = wait_since
  BY DEF Exit

LEMMA SentCoversCounted ==
    ASSUME SessionTypeOK, WithinRate, RL!CountRequest, NEW p \in Packet, Send(p), now' = now
    PROVE  WithinRate'
  <1>1. /\ request_count' \in 0..RATE
        /\ request_count' <= 1 \/ (window_start = now /\ request_count' <= request_count + 1)
    BY LimiterStep
  <1>2. /\ sent_now' \in Nat \ {0} /\ sent_now \in Nat /\ RATE \in Nat
        /\ sent_now > RATE \/ sent_now' = sent_now + 1
        /\ sent_now' >= sent_now /\ request_count \in 0..RATE
    BY SendStep, SessionAssumption DEF SessionTypeOK
  <1>3. request_count' <= sent_now'
    BY <1>1, <1>2 DEF WithinRate
  <1> QED
    BY <1>3 DEF WithinRate

(* Types of what neither end nor beginning of a session touches.           *)
RestOK ==
    /\ now \in 1..EndOfTime /\ wait_since \in 1..now /\ spoke \in 1..now
    /\ last_heartbeat \in 0..now /\ beat \in 0..now
    /\ rp \in ReplayState
    /\ request_count \in 0..RATE /\ window_start \in 1..now
    /\ sent_seq \in SeqNum /\ sent_now \in Nat /\ proper \in BOOLEAN
    /\ passed \in BOOLEAN

LEMMA Closes ==
    ASSUME RestOK', WithinRate', phase' = "closed", online' = 0, player_id' \in {-1, 1},
           why' \in Reason \ {"open"},
           proper' => why' \in {"left", "gone", "silent", "no_heartbeat"},
           why' # "no_heartbeat" \/ HeartbeatRuleHitsBusyClients'
    PROVE  SessionInv'
  <1>1. SessionTypeOK'
    BY DEF RestOK, SessionTypeOK
  <1>2. Counted' /\ Remembered' /\ InStep' /\ StillOpen'
    BY DEF Counted, Remembered, InStep, StillOpen
  <1>3. ProperClientIsServed'
    BY DEF ProperClientIsServed
  <1>4. HeartbeatRuleHitsBusyClients'
    BY DEF HeartbeatRuleHitsBusyClients
  <1> QED
    BY <1>1, <1>2, <1>3, <1>4 DEF SessionInv

LEMMA GoesOn ==
    ASSUME RestOK', WithinRate', phase' \in {"top", "recv", "reading"},
           online' = 1, player_id' = 1, why' = "open",
           last_heartbeat' = beat', phase' = "top" => sent_now' > 0,
           proper' => rp'.initialized /\ rp'.last_seq_num = sent_seq'
    PROVE  SessionInv'
  <1>1. SessionTypeOK'
    BY DEF RestOK, SessionTypeOK, Reason
  <1>2. Counted' /\ Remembered' /\ InStep' /\ StillOpen'
    BY DEF Counted, Remembered, InStep, StillOpen
  <1>3. ProperClientIsServed' /\ HeartbeatRuleHitsBusyClients'
    BY DEF ProperClientIsServed, HeartbeatRuleHitsBusyClients
  <1> QED
    BY <1>1, <1>2, <1>3 DEF SessionInv

LEMMA FirstPacketStep ==
    ASSUME SessionInv, NEW p \in Packet, FirstPacket(p)
    PROVE  SessionInv'
  <1>1. /\ SessionTypeOK /\ Counted /\ Remembered /\ InStep /\ WithinRate /\ StillOpen
        /\ phase = "first" /\ Send(p) /\ RememberSeq(p) /\ Watch(p)
        /\ UNCHANGED <<now, last_heartbeat, request_count, window_start>>
    BY DEF SessionInv, FirstPacket
  <1>2. player_id = -1 /\ online = 0 /\ last_heartbeat = 0 /\ beat = 0 /\ why = "open"
    BY <1>1 DEF Counted, Remembered, StillOpen
  <1>3. wait_since' = wait_since
    BY DEF FirstPacket, Exit, JoinAnswered
  <1>4. RestOK'
    <2>1. rp' \in ReplayState /\ passed' \in BOOLEAN
      BY <1>1, RememberStep, WatchStep
    <2>2. /\ sent_seq' \in SeqNum /\ sent_now' \in Nat /\ spoke' = now /\ beat' \in {beat, now}
          /\ proper' \in BOOLEAN
      BY <1>1, SendStep
    <2>3. now \in Nat /\ now >= 1
      BY <1>1 DEF SessionTypeOK
    <2> QED
      BY <1>1, <1>2, <1>3, <2>1, <2>2, <2>3 DEF RestOK, SessionTypeOK
  <1>5. WithinRate'
    <2>1. sent_now' >= sent_now /\ sent_now' \in Nat
      BY <1>1, SendStep
    <2> QED
      BY <1>1, <2>1 DEF WithinRate, SessionTypeOK
  <1>6. proper' => Received(p) /\ p.op = "JOIN" /\ p.fault = "none"
    BY <1>1, SendStep, ProperReceived
  <1>7. CASE phase' = "closed"
    <2>1. /\ online' = 0 /\ player_id' \in {-1, 1}
          /\ why' \in {"broken", "not_join", "username", "gone"}
          /\ why' = "gone" \/ ~(Received(p) /\ p.op = "JOIN" /\ p.fault # "username")
      BY <1>2, <1>7 DEF FirstPacket, Exit, JoinAnswered
    <2>2. why' \in Reason \ {"open"} /\ why' # "no_heartbeat"
      BY <2>1 DEF Reason
    <2> QED
      BY <1>4, <1>5, <1>6, <1>7, <2>1, <2>2, Closes
  <1>8. CASE phase' # "closed"
    <2>1. /\ phase' = "top" /\ player_id' = 1 /\ online' = 1 /\ why' = "open"
          /\ Received(p) /\ p.op = "JOIN"
      BY <1>2, <1>8 DEF FirstPacket, Exit, JoinAnswered
    <2>2. /\ rp' = [last_seq_num |-> p.seq, initialized |-> TRUE]
          /\ sent_seq' = p.seq /\ sent_now' > 0 /\ beat' = beat
      BY <1>1, <2>1, RememberStep, SendStep
    <2>3. last_heartbeat' = beat'
      BY <1>1, <1>2, <2>2
    <2> QED
      BY <1>4, <1>5, <2>1, <2>2, <2>3, GoesOn
  <1> QED
    BY <1>7, <1>8

LEMMA PacketStep ==
    ASSUME SessionInv, NEW p \in Packet, PacketArrives(p)
    PROVE  SessionInv'
  <1>1. /\ SessionTypeOK /\ Counted /\ Remembered /\ InStep /\ WithinRate /\ StillOpen
        /\ phase \in {"recv", "reading"} /\ Send(p) /\ RememberSeq(p)
        /\ Watch(p) /\ now' = now
    BY DEF SessionInv, PacketArrives
  <1>2. player_id = 1 /\ online = 1 /\ last_heartbeat = beat /\ why = "open"
    BY <1>1 DEF Counted, Remembered, StillOpen
  <1>3. wait_since' = wait_since /\ last_heartbeat' \in {last_heartbeat, now}
    BY DEF PacketArrives, Handle, Dispatch, Served, Exit
  <1>4. /\ request_count' \in 0..RATE /\ window_start' \in 1..now /\ WithinRate'
    <2>1. CASE Received(p)
      <3>1. RL!CountRequest
        BY <2>1 DEF PacketArrives, Handle
      <3> QED
        BY <1>1, <3>1, LimiterStep, SentCoversCounted
    <2>2. CASE ~Received(p)
      <3>1. UNCHANGED <<request_count, window_start>>
        BY <2>2 DEF PacketArrives
      <3>2. sent_now' >= sent_now /\ sent_now' \in Nat
        BY <1>1, SendStep
      <3> QED
        BY <1>1, <3>1, <3>2 DEF WithinRate, SessionTypeOK
    <2> QED
      BY <2>1, <2>2
  <1>5. RestOK'
    <2>1. rp' \in ReplayState /\ passed' \in BOOLEAN
      BY <1>1, RememberStep, WatchStep
    <2>2. /\ sent_seq' \in SeqNum /\ sent_now' \in Nat /\ spoke' = now /\ beat' \in {beat, now}
          /\ proper' \in BOOLEAN
      BY <1>1, SendStep
    <2>3. now \in Nat /\ now >= 1
      BY <1>1 DEF SessionTypeOK
    <2> QED
      BY <1>1, <1>2, <1>3, <1>4, <2>1, <2>2, <2>3 DEF RestOK, SessionTypeOK
  <1>6. proper' => Received(p) /\ ~RL!Refused /\ p.op \notin {"other", "JOIN"} /\ p.fault = "none"
    <2>1. SUFFICES ASSUME proper'
                   PROVE  Received(p) /\ ~RL!Refused /\ p.op \notin {"other", "JOIN"} /\ p.fault = "none"
      OBVIOUS
    <2>2. /\ p.fault = "none" /\ p.op # "other" /\ sent_now < RATE
          /\ p.op = "JOIN" <=> phase = "first"
      BY <1>1, <2>1, SendStep
    <2>3. Received(p)
      BY <1>1, <2>1, ProperReceived
    <2>4. ASSUME RL!Refused PROVE FALSE
      <3>1. RL!CountRequest
        BY <2>3 DEF PacketArrives, Handle
      <3>2. window_start = now /\ request_count = RATE
        BY <1>1, <2>4, <3>1, LimiterStep
      <3> QED
        BY <1>1, <2>2, <3>2, SessionAssumption DEF WithinRate, SessionTypeOK
    <2> QED
      BY <1>1, <2>2, <2>3, <2>4
  <1>7. CASE phase' = "closed"
    <2>1. /\ online' = 0 /\ player_id' \in {-1, 1}
          /\ \/ why' \in {"left", "gone"}
             \/ why' = "broken" /\ ~Received(p)
             \/ why' = "rate" /\ RL!Refused
             \/ why' = "opcode" /\ p.op = "other"
             \/ why' = "size" /\ p.fault = "size"
      BY <1>2, <1>7 DEF PacketArrives, Handle, Dispatch, Served, Exit
    <2>2. why' \in Reason \ {"open"} /\ why' # "no_heartbeat"
      BY <2>1 DEF Reason
    <2>3. proper' => why' \in {"left", "gone", "silent", "no_heartbeat"}
      BY <1>6, <2>1
    <2> QED
      BY <1>4, <1>5, <1>7, <2>1, <2>2, <2>3, Closes
  <1>8. CASE phase' # "closed"
    <2>1. /\ phase' = "top" /\ player_id' = 1 /\ online' = 1 /\ why' = "open" /\ Received(p)
          /\ last_heartbeat' = IF p.op = "HEARTBEAT" THEN now ELSE last_heartbeat
      BY <1>2, <1>8 DEF PacketArrives, Handle, Dispatch, Served, Exit
    <2>2. /\ rp' = [last_seq_num |-> p.seq, initialized |-> TRUE]
          /\ sent_seq' = p.seq /\ sent_now' > 0
          /\ beat' = IF p.op = "HEARTBEAT" THEN now ELSE beat
      BY <1>1, <2>1, RememberStep, SendStep
    <2>3. last_heartbeat' = beat'
      BY <1>2, <2>1, <2>2
    <2> QED
      BY <1>4, <1>5, <2>1, <2>2, <2>3, GoesOn
  <1> QED
    BY <1>7, <1>8

(* The ways out that do not come with a packet.                            *)
LEMMA SilentEnd ==
    ASSUME SessionInv, phase # "closed", NEW reason \in {"no_heartbeat", "silent", "gone"},
           Exit(reason, player_id, online),
           UNCHANGED <<now, last_heartbeat, rp, request_count, window_start, clientVars>>,
           reason = "no_heartbeat" => phase = "top" /\ HeartbeatOverdue
    PROVE  SessionInv'
  <1>1. /\ SessionTypeOK /\ Counted /\ Remembered /\ WithinRate
    BY DEF SessionInv
  <1>2. \/ player_id = 1 /\ online = 1
        \/ player_id = -1 /\ online = 0
    BY <1>1 DEF Counted, SessionTypeOK
  <1>3. RestOK' /\ WithinRate'
    BY <1>1 DEF RestOK, WithinRate, SessionTypeOK, Exit, clientVars
  <1>4. phase' = "closed" /\ online' = 0 /\ player_id' \in {-1, 1} /\ why' = reason
    BY <1>2 DEF Exit
  <1>5. why' # "no_heartbeat" \/ HeartbeatRuleHitsBusyClients'
    <2>1. ASSUME reason = "no_heartbeat" PROVE HeartbeatRuleHitsBusyClients'
      <3>1. /\ phase = "top" /\ last_heartbeat > 0
            /\ now - last_heartbeat > HEARTBEAT_TIMEOUT
        BY <2>1 DEF HeartbeatOverdue
      <3>2. sent_now > 0 /\ last_heartbeat = beat
        BY <1>1, <3>1 DEF Remembered
      <3> QED
        BY <3>1, <3>2 DEF HeartbeatRuleHitsBusyClients, clientVars
    <2> QED
      BY <1>4, <2>1
  <1>6. why' \in Reason \ {"open"} /\ why' \in {"left", "gone", "silent", "no_heartbeat"}
    BY <1>4 DEF Reason
  <1> QED
    BY <1>3, <1>4, <1>5, <1>6, Closes

LEMMA TickStep == SessionInv /\ Tick => SessionInv'
  <1> SUFFICES ASSUME SessionInv, Tick PROVE SessionInv'
    OBVIOUS
  <1>1. /\ SessionTypeOK /\ Counted /\ Remembered /\ InStep /\ StillOpen
        /\ phase \notin {"top", "closed"}
        /\ now' = now + 1 /\ sent_now' = 0 /\ now < EndOfTime
        /\ UNCHANGED <<phase, wait_since, last_heartbeat, rp, request_count, window_start,
                       player_id, online, why, sent_seq, spoke, beat, proper, passed>>
    BY DEF SessionInv, Tick, serverVars
  <1>2. why = "open"
    BY <1>1 DEF StillOpen
  <1>3. now \in Nat /\ EndOfTime \in Nat /\ now + 1 \in 1..EndOfTime /\ window_start # now'
    BY <1>1, SessionAssumption DEF SessionTypeOK
  <1>4. SessionTypeOK'
    <2>1. /\ now' \in 1..EndOfTime /\ wait_since' \in 1..now' /\ spoke' \in 1..now'
          /\ last_heartbeat' \in 0..now' /\ beat' \in 0..now'
          /\ window_start' \in 1..now' /\ sent_now' \in Nat
      BY <1>1, <1>3 DEF SessionTypeOK
    <2>2. /\ phase' \in {"first", "top", "recv", "reading", "closed"}
          /\ rp' \in ReplayState /\ request_count' \in 0..RATE
          /\ player_id' \in {-1, 1} /\ online' \in {0, 1} /\ why' \in Reason
          /\ sent_seq' \in SeqNum
      BY <1>1 DEF SessionTypeOK
    <2>3. proper' \in BOOLEAN /\ passed' \in BOOLEAN
      BY <1>1, Zenon DEF SessionTypeOK
    <2> QED
      BY <2>1, <2>2, <2>3 DEF SessionTypeOK
  <1>5. Counted' /\ Remembered' /\ InStep' /\ StillOpen'
    BY <1>1 DEF Counted, Remembered, InStep, StillOpen
  <1>6. WithinRate'
    BY <1>1, <1>3 DEF WithinRate
  <1>7. ProperClientIsServed' /\ HeartbeatRuleHitsBusyClients'
    BY <1>1, <1>2 DEF ProperClientIsServed, HeartbeatRuleHitsBusyClients
  <1> QED
    BY <1>4, <1>5, <1>6, <1>7 DEF SessionInv

LEMMA SessionStep == SessionInv /\ [SessionNext]_sessionVars => SessionInv'
  <1> SUFFICES ASSUME SessionInv, [SessionNext]_sessionVars PROVE SessionInv'
    OBVIOUS
  <1>1. ASSUME NEW p \in Packet, FirstPacket(p) PROVE SessionInv'
    BY <1>1, FirstPacketStep
  <1>2. ASSUME NEW p \in Packet, PacketArrives(p) PROVE SessionInv'
    BY <1>2, PacketStep
  <1>3. CASE TopOfLoop
    <2>1. CASE HeartbeatOverdue
      <3>1. /\ phase = "top" /\ Exit("no_heartbeat", player_id, online)
            /\ UNCHANGED <<now, last_heartbeat, rp, request_count, window_start, clientVars>>
        BY <1>3, <2>1 DEF TopOfLoop
      <3> QED
        BY <2>1, <3>1, SilentEnd
    <2>2. CASE ~HeartbeatOverdue
      <3>1. /\ phase = "top" /\ phase' = "recv" /\ wait_since' = now
            /\ UNCHANGED <<player_id, online, why>>
            /\ UNCHANGED <<now, last_heartbeat, rp, request_count, window_start, clientVars>>
        BY <1>3, <2>2 DEF TopOfLoop
      <3>2. /\ SessionTypeOK /\ Counted /\ Remembered /\ InStep /\ WithinRate /\ StillOpen
        BY DEF SessionInv
      <3>3. RestOK' /\ WithinRate'
        BY <3>1, <3>2 DEF RestOK, WithinRate, SessionTypeOK, clientVars
      <3>4. /\ online' = 1 /\ player_id' = 1 /\ why' = "open" /\ last_heartbeat' = beat'
            /\ proper' => rp'.initialized /\ rp'.last_seq_num = sent_seq'
        BY <3>1, <3>2 DEF Counted, Remembered, InStep, StillOpen, clientVars
      <3> QED
        BY <3>1, <3>3, <3>4, GoesOn
    <2> QED
      BY <2>1, <2>2
  <1>4. CASE RecvTimeout
    <2>1. /\ phase = "recv" /\ Exit("silent", player_id, online)
          /\ UNCHANGED <<now, last_heartbeat, rp, request_count, window_start, clientVars>>
      BY <1>4 DEF RecvTimeout, Overdue
    <2> QED
      BY <2>1, SilentEnd
  <1>5. CASE PacketBegins
    <2>1. /\ phase = "recv" /\ phase' = "reading" /\ spoke' = now
          /\ UNCHANGED <<now, wait_since, last_heartbeat, rp, request_count, window_start,
                         player_id, online, why, sent_seq, sent_now, beat, proper, passed>>
      BY <1>5 DEF PacketBegins
    <2>2. /\ SessionTypeOK /\ Counted /\ Remembered /\ InStep /\ WithinRate /\ StillOpen
      BY DEF SessionInv
    <2>3. RestOK' /\ WithinRate'
      BY <2>1, <2>2 DEF RestOK, WithinRate, SessionTypeOK
    <2>4. /\ online' = 1 /\ player_id' = 1 /\ why' = "open" /\ last_heartbeat' = beat'
          /\ proper' => rp'.initialized /\ rp'.last_seq_num = sent_seq'
      BY <2>1, <2>2 DEF Counted, Remembered, InStep, StillOpen
    <2> QED
      BY <2>1, <2>3, <2>4, GoesOn
  <1>6. CASE Gone
    <2>1. /\ phase \in {"first", "recv", "reading"} /\ Exit("gone", player_id, online)
          /\ UNCHANGED <<now, last_heartbeat, rp, request_count, window_start, clientVars>>
      BY <1>6 DEF Gone
    <2> QED
      BY <2>1, SilentEnd
  <1>7. CASE Tick
    BY <1>7, TickStep
  <1>8. CASE UNCHANGED sessionVars
    BY <1>8 DEF sessionVars, serverVars, clientVars, SessionInv, SessionTypeOK, Counted,
        Remembered, InStep, WithinRate, StillOpen, ProperClientIsServed,
        HeartbeatRuleHitsBusyClients
  <1> QED
    BY <1>1, <1>2, <1>3, <1>4, <1>5, <1>6, <1>7, <1>8 DEF SessionNext

LEMMA SessionBegins == SessionInit => SessionInv
  <1> SUFFICES ASSUME SessionInit PROVE SessionInv
    OBVIOUS
  <1>1. ReplayInit \in ReplayState /\ 0 \in SeqNum /\ ReplayInit.initialized = FALSE
    BY SeqAssumption DEF ReplayInit, ReplayState, SeqNum
  <1>2. SessionTypeOK
    <2>1. proper \in BOOLEAN /\ passed \in BOOLEAN
      BY Zenon DEF SessionInit
    <2> QED
      BY <1>1, <2>1, SessionAssumption DEF SessionInit, SessionTypeOK, Reason
  <1>3. Counted /\ Remembered /\ InStep /\ WithinRate /\ StillOpen
    BY <1>1 DEF SessionInit, Counted, Remembered, InStep, WithinRate, StillOpen
  <1>4. ProperClientIsServed /\ HeartbeatRuleHitsBusyClients
    BY DEF SessionInit, ProperClientIsServed, HeartbeatRuleHitsBusyClients
  <1> QED
    BY <1>2, <1>3, <1>4 DEF SessionInv

LEMMA SessionAlways == SessionSpec => []SessionInv
  BY SessionBegins, SessionStep, PTL DEF SessionSpec

-----------------------------------------------------------------------------
(* Types, for any timeouts.                                                *)
THEOREM SessionTypeCorrect == SessionSpec => []SessionTypeOK
  <1>1. SessionInv => SessionTypeOK
    BY DEF SessionInv
  <1> QED
    BY <1>1, SessionAlways, PTL

(* handle_client: no check turns a client away that behaves like client.c, *)
(* and the numbers it sends may roll over.                                 *)
THEOREM ProperClientsAreServed == SessionSpec => []ProperClientIsServed
  <1>1. SessionInv => ProperClientIsServed
    BY DEF SessionInv
  <1> QED
    BY <1>1, SessionAlways, PTL

(* handle_client: the 30 second rule is for those who talk but do not      *)
(* beat.                                                                   *)
THEOREM HeartbeatRuleIsForBusyClients == SessionSpec => []HeartbeatRuleHitsBusyClients
  <1>1. SessionInv => HeartbeatRuleHitsBusyClients
    BY DEF SessionInv
  <1> QED
    BY <1>1, SessionAlways, PTL

(* cleanup_client: whichever way a session ends its join is undone.        *)
THEOREM JoinIsAlwaysUndone == SessionSpec => []JoinIsUndone
  <1>1. SessionInv => JoinIsUndone
    BY DEF SessionInv, SessionTypeOK, Counted, JoinIsUndone
  <1> QED
    BY <1>1, SessionAlways, PTL

-----------------------------------------------------------------------------
(* Replays.  Once the watched number has passed, the last one that passed  *)
(* is not smaller, until the numbers roll over.                            *)
PassedInv == passed => rp.initialized /\ Watched <= rp.last_seq_num

LEMMA PassedKept ==
    ASSUME PassedInv, UNCHANGED <<passed, rp>>
    PROVE  PassedInv'
  BY DEF PassedInv

LEMMA PassedStep == SessionInv /\ PassedInv /\ [SessionNext]_sessionVars => PassedInv'
  <1> SUFFICES ASSUME SessionInv, PassedInv, [SessionNext]_sessionVars PROVE PassedInv'
    OBVIOUS
  <1>1. SessionTypeOK
    BY DEF SessionInv
  <1>2. ASSUME NEW p \in Packet, RememberSeq(p), Watch(p) PROVE PassedInv'
    <2>1. CASE p.fault # "length" /\ Accepts(rp, p.seq)
      <3>1. rp' = [last_seq_num |-> p.seq, initialized |-> TRUE]
        BY <1>2, <2>1 DEF RememberSeq, Validated
      <3>2. passed' => p.seq = Watched \/ (passed /\ p.seq > rp.last_seq_num)
        BY <1>2, <2>1, Zenon DEF Watch
      <3>3. /\ p.seq \in Int /\ Watched \in Int /\ rp.last_seq_num \in Int
        BY <1>1, SessionAssumption DEF Packet, SeqNum, SessionTypeOK, ReplayState
      <3> QED
        BY <3>1, <3>2, <3>3 DEF PassedInv
    <2>2. CASE ~(p.fault # "length" /\ Accepts(rp, p.seq))
      <3>1. passed' = passed
        BY <1>2, <2>2, Zenon DEF Watch
      <3>2. rp' = rp
        BY <1>2, <2>2 DEF RememberSeq, Validated
      <3> QED
        BY <3>1, <3>2, PassedKept
    <2> QED
      BY <2>1, <2>2
  <1>3. ASSUME NEW p \in Packet, FirstPacket(p) \/ PacketArrives(p) PROVE PassedInv'
    BY <1>2, <1>3 DEF FirstPacket, PacketArrives
  <1>4. CASE TopOfLoop \/ RecvTimeout \/ PacketBegins \/ Gone \/ Tick \/ UNCHANGED sessionVars
    <2>1. UNCHANGED <<passed, rp>>
      BY <1>4 DEF TopOfLoop, RecvTimeout, PacketBegins, Gone, Tick, sessionVars,
                  serverVars, clientVars
    <2> QED
      BY <2>1, PassedKept
  <1> QED
    BY <1>3, <1>4 DEF SessionNext

(* replay_protection_validate in recv_packet: a packet that comes again is *)
(* not served again, unless the numbers have moved on by half their range  *)
(* or have rolled over.                                                    *)
THEOREM NoReplayIsServed == SessionSpec => NotServedTwice
  <1>1. SessionInit => PassedInv
    BY DEF SessionInit, PassedInv
  <1>2. SessionInv /\ PassedInv /\ [SessionNext]_sessionVars =>
          (passed /\ phase \in {"recv", "reading"} /\ phase' = "top"
             => sent_seq' # Watched \/ rp.last_seq_num - Watched >= HalfRange)
    <2> SUFFICES ASSUME SessionInv, PassedInv, [SessionNext]_sessionVars, passed,
                        phase \in {"recv", "reading"}, phase' = "top",
                        sent_seq' = Watched
                 PROVE  rp.last_seq_num - Watched >= HalfRange
      OBVIOUS
    <2>1. PICK p \in Packet : PacketArrives(p)
      BY DEF SessionNext, FirstPacket, TopOfLoop, RecvTimeout, PacketBegins, Gone, Tick,
             Exit, sessionVars, serverVars
    <2>2. Received(p) /\ p.seq = Watched
      BY <2>1 DEF PacketArrives, Exit, Send
    <2>3. Accepts(rp, Watched)
      BY <2>2 DEF Received
    <2>4. /\ rp.initialized /\ Watched <= rp.last_seq_num
          /\ Watched \in Int /\ rp.last_seq_num \in Int
      BY SessionAssumption DEF PassedInv, SessionInv, SessionTypeOK, ReplayState, SeqNum
    <2> QED
      BY <2>3, <2>4 DEF Accepts
  <1> QED
    BY <1>1, <1>2, PassedStep, SessionAlways, PTL DEF SessionSpec, NotServedTwice

-----------------------------------------------------------------------------
(* The receive timeout.  Each wait begins in the second of a packet, for   *)
(* the loop comes to its top with a packet only.                           *)
WaitInv ==
    /\ phase = "top" => spoke = now
    /\ phase = "recv" => spoke = wait_since /\ now - wait_since <= RECV_TIMEOUT
    /\ why = "silent" => now - spoke = RECV_TIMEOUT

LEMMA WaitStep == SessionInv /\ WaitInv /\ [SessionNext]_sessionVars => WaitInv'
  <1> SUFFICES ASSUME SessionInv, WaitInv, [SessionNext]_sessionVars PROVE WaitInv'
    OBVIOUS
  <1>1. /\ now \in Nat /\ wait_since \in Nat /\ spoke \in Nat /\ RECV_TIMEOUT \in Nat
        /\ phase # "closed" => why = "open"
    BY SessionAssumption DEF SessionInv, SessionTypeOK, StillOpen
  <1>2. ASSUME NEW p \in Packet, FirstPacket(p) \/ PacketArrives(p) PROVE WaitInv'
    <2>1. spoke' = now /\ now' = now /\ phase # "closed"
      BY <1>2 DEF FirstPacket, PacketArrives, Send
    <2>2. phase' \in {"top", "closed"} /\ why' # "silent"
      BY <1>1, <1>2, <2>1
         DEF FirstPacket, PacketArrives, JoinAnswered, Handle, Dispatch, Served, Exit
    <2> QED
      BY <2>1, <2>2 DEF WaitInv
  <1>3. CASE TopOfLoop
    BY <1>1, <1>3 DEF TopOfLoop, Exit, WaitInv, clientVars
  <1>4. CASE RecvTimeout
    BY <1>1, <1>4 DEF RecvTimeout, Overdue, Exit, WaitInv, clientVars
  <1>5. CASE PacketBegins \/ Gone
    BY <1>1, <1>5 DEF PacketBegins, Gone, Exit, WaitInv, clientVars
  <1>6. CASE Tick
    BY <1>1, <1>6 DEF Tick, Overdue, WaitInv, serverVars
  <1>7. CASE UNCHANGED sessionVars
    BY <1>7 DEF sessionVars, serverVars, clientVars, WaitInv
  <1> QED
    BY <1>2, <1>3, <1>4, <1>5, <1>6, <1>7 DEF SessionNext

(* client_handler.c, the 5 of recv_packet_with_timeout in the main loop.   *)
THEOREM SilentClientsDropInTime == SessionSpec => []DroppedAfterTimeout
  <1>1. SessionInit => WaitInv
    BY DEF SessionInit, WaitInv
  <1>2. SessionInv /\ WaitInv => DroppedAfterTimeout
    BY SessionAssumption
       DEF SessionInv, SessionTypeOK, WaitInv, DroppedAfterTimeout
  <1> QED
    BY <1>1, <1>2, WaitStep, SessionAlways, PTL DEF SessionSpec
=============================================================================
