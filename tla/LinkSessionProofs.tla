------------------------- MODULE LinkSessionProofs -------------------------
(* Proofs about LinkSession, for every choice of timeouts, dividers, block *)
(* and fault counts.                                                       *)
EXTENDS LinkSession, TLAPS

---------------------------------------------------------------------------
(* The scripts.                                                            *)

(* Every script is a sequence of at most seven calls.                      *)
LEMMA ScriptShape ==
  ASSUME NEW ph \in MasterPhase \cup SlavePhase
  PROVE  /\ DOMAIN Script[ph] = 1..Len(Script[ph])
         /\ Len(Script[ph]) \in 1..7
         /\ 1 \in DOMAIN Script[ph]
BY DEF MasterPhase, SlavePhase, DataPhase, Script

(* Every call but the last of its function has a next one.                 *)
LEMMA ScriptNext ==
  ASSUME NEW ph \in MasterPhase \cup SlavePhase, NEW i \in DOMAIN Script[ph]
  PROVE  /\ Script[ph][i] \in {"arm", "up", "hi", "tx", "rx", "quiet"}
              => i + 1 \in DOMAIN Script[ph]
         /\ ph \in MasterPhase /\ Script[ph][i] \in {"down", "nap"}
              => i + 1 \in DOMAIN Script[ph]
         /\ ph \in SlavePhase /\ Script[ph][i] = "lo"
              => i + 1 \in DOMAIN Script[ph]
         /\ ph = "bulk_recv" /\ Script[ph][i] = "rx"
              => i + 2 \in DOMAIN Script[ph] /\ Script[ph][i + 1] = "hi"
BY DEF MasterPhase, SlavePhase, DataPhase, Script

(* Only the receive is the fourth call of a verifying function.            *)
LEMMA ScriptVerify ==
  ASSUME NEW ph \in MasterPhase \cup SlavePhase, NEW i \in DOMAIN Script[ph],
         Verifies(ph)
  PROVE  /\ i = 4 <=> Script[ph][i] = "rx"
         /\ Script[ph][i] \in {"arm", "up", "hi"} => i < 4
         /\ Script[ph][i] \in {"lo", "down"} => i > 4
BY DEF Verifies, MasterPhase, SlavePhase, DataPhase, Script

(* A request is sent without receiving anything.                           *)
LEMMA ScriptRx ==
  ASSUME NEW i \in DOMAIN Script["send_ctrl"]
  PROVE  Script["send_ctrl"][i] # "rx"
BY DEF Script

(* A function starts with its doorbell down.                               *)
LEMMA RaisedFirst == ASSUME NEW ph PROVE ~Raised(ph, 1)
BY DEF Raised

(* The doorbell after a call: up after "up", down after "down".            *)
LEMMA RaisedNext ==
  ASSUME NEW ph, NEW i \in Nat \ {0}
  PROVE  Raised(ph, i + 1)
           <=> Script[ph][i] = "up" \/ (Raised(ph, i) /\ Script[ph][i] # "down")
BY DEF Raised

(* Where a function can end, its doorbell is down.                         *)
LEMMA RaisedLast ==
  ASSUME NEW ph \in MasterPhase \cup SlavePhase, NEW i \in DOMAIN Script[ph]
  PROVE  /\ ph \in MasterPhase /\ Script[ph][i] \in {"lo", "rest"} => ~Raised(ph, i)
         /\ ph \in SlavePhase /\ Script[ph][i] \in {"hi", "nap"} => ~Raised(ph, i)
         /\ ph \in {"idle", "resync", "boot"} => ~Raised(ph, i)
BY DEF Raised, MasterPhase, SlavePhase, DataPhase, Script
---------------------------------------------------------------------------
(* The clockwork: no wait of either side is of negative or odd length.     *)

(* The wire time of a bulk phase is a natural number.                      *)
LEMMA BulkUsNat ==
  ASSUME NEW b \in Nat, NEW q \in Nat \ {0}
  PROVE  BulkUs(b, q) \in Nat
<1>1. b * BlockUs \in Nat BY WireAssumption
<1>2. (b * BlockUs) * q \in Nat BY <1>1
<1> QED BY <1>2 DEF BulkUs

(* bulk_timeout_us is a natural number.                                    *)
LEMMA BulkTimeoutNat ==
  ASSUME NEW b \in Nat, NEW q \in Nat \ {0}
  PROVE  BulkTimeout(b, q) \in Nat
BY BulkUsNat DEF BulkTimeout, Lesser

(* So is every deadline a call is given.                                   *)
LEMMA PatienceNat ==
  ASSUME TypeOK, NEW p \in Side, NEW ph \in Phase(p), NEW i \in DOMAIN Script[ph]
  PROVE  Patience(p, ph, Script[ph][i]) \in Nat
<1>1. rate[p] \in Nat \ {0} BY WireAssumption DEF TypeOK
<1>2. StreamBlocks \in Nat /\ VerifyBlocks \in Nat
  BY WireAssumption, SessionAssumption
<1>3. TxUs(p, ph) \in Nat
  BY <1>1, <1>2, BulkUsNat, WireAssumption DEF TxUs, Blocks
<1>4. BulkPatience(p, ph) \in Nat
  BY <1>1, <1>2, BulkTimeoutNat DEF BulkPatience
<1>5. {HandshakeUs, CtrlUs, ProbeUs, ResyncUs, ServeUs, BootUs} \subseteq Nat
  BY SessionAssumption
<1> QED BY <1>3, <1>4, <1>5 DEF Patience, DoorbellPatience

(* Where a side is after it moved.                                         *)
PlaceOK(place, time) ==
  /\ place \in [Side -> [ph : MasterPhase \cup SlavePhase, i : 1..7]]
  /\ \A p \in Side : place[p].ph \in Phase(p) /\ place[p].i \in DOMAIN Script[place[p].ph]
  /\ time \in [Side -> Nat]

(* Entering a call of a function of its own puts a side in its place.      *)
LEMMA EnterPlace ==
  ASSUME TypeOK, NEW p \in Side, NEW ph \in Phase(p), NEW i \in DOMAIN Script[ph],
         Enter(p, ph, i)
  PROVE  /\ PlaceOK(at', left')
         /\ at'[p] = [ph |-> ph, i |-> i]
         /\ \A r \in Side \ {p} : at'[r] = at[r]
<1>1. ph \in MasterPhase \cup SlavePhase BY DEF Phase
<1>2. i \in 1..7 BY <1>1, ScriptShape
<1>3. at' = [at EXCEPT ![p] = [ph |-> ph, i |-> i]] BY DEF Enter
<1>4. left' \in [Side -> Nat] BY PatienceNat DEF Enter, TypeOK, WireTypeOK
<1> QED BY <1>1, <1>2, <1>3, <1>4 DEF PlaceOK, TypeOK, In

(* So does beginning a function.                                           *)
LEMMA BeginPlace ==
  ASSUME TypeOK, NEW p \in Side, NEW ph \in Phase(p), Begin(p, ph)
  PROVE  /\ PlaceOK(at', left')
         /\ at'[p] = [ph |-> ph, i |-> 1]
         /\ \A r \in Side \ {p} : at'[r] = at[r]
         /\ ok' \in [Side -> BOOLEAN]
<1>1. 1 \in DOMAIN Script[ph] BY ScriptShape DEF Phase
<1>2. Enter(p, ph, 1) BY DEF Begin
<1>3. ok' \in [Side -> BOOLEAN] BY DEF Begin, TypeOK
<1> QED BY <1>1, <1>2, <1>3, EnterPlace

(* So does moving on within a function.                                    *)
LEMMA SkipPlace ==
  ASSUME TypeOK, NEW p \in Side, NEW n \in Nat,
         at[p].i + n \in DOMAIN Script[at[p].ph], Skip(p, n)
  PROVE  /\ PlaceOK(at', left')
         /\ at'[p] = [ph |-> at[p].ph, i |-> at[p].i + n]
         /\ \A r \in Side \ {p} : at'[r] = at[r]
BY EnterPlace DEF Skip, TypeOK, In
---------------------------------------------------------------------------
(* Steps inside a function.                                                *)

(* Where the type invariant says a side is.                                *)
LEMMA Facts ==
  ASSUME TypeOK, NEW p \in Side
  PROVE  /\ at[p].ph \in MasterPhase \cup SlavePhase
         /\ at[p].ph \in Phase(p)
         /\ at[p].i \in DOMAIN Script[at[p].ph]
         /\ at[p].i \in 1..7
BY DEF TypeOK, In, Phase

(* A call that neither rings nor receives disturbs nothing but the place.  *)
LEMMA PlainStep ==
  ASSUME IInv, NEW p \in Side, NextCall(p),
         at[p].i + 1 \in DOMAIN Script[at[p].ph],
         Step(p) \notin {"up", "down", "rx"},
         UNCHANGED <<db, count, tally, call>>
  PROVE  PlaceOK(at', left') /\ DoorbellsComeDown' /\ ChainInv' /\ TallyInv'
<1>1. /\ PlaceOK(at', left')
      /\ at'[p] = [ph |-> at[p].ph, i |-> at[p].i + 1]
      /\ \A r \in Side \ {p} : at'[r] = at[r]
  BY SkipPlace DEF NextCall, IInv
<1>2. \A r \in Side : at'[r].ph = at[r].ph
  BY <1>1
<1>3. DoorbellsComeDown'
  <2>1. Raised(at[p].ph, at[p].i + 1) <=> Raised(at[p].ph, at[p].i)
    BY Facts, RaisedNext DEF IInv, Step
  <2> QED BY <1>1, <2>1 DEF DoorbellsComeDown, IInv, Raised
<1>4. ChainInv'
  BY <1>2 DEF ChainInv, IInv, In, Side
<1>5. TallyInv'
  <2>1. Verifies(at[p].ph) => at[p].i # 4
    BY Facts, ScriptVerify DEF IInv, Step
  <2>2. Verifies(at[p].ph) => BlocksDone(p)' = BlocksDone(p)
    BY <1>1, <2>1, Facts DEF BlocksDone, IInv
  <2>3. \A r \in Side \ {p} : BlocksDone(r)' = BlocksDone(r)
    BY <1>1 DEF BlocksDone
  <2> QED BY <1>2, <2>2, <2>3 DEF TallyInv, IInv, In, Side
<1> QED BY <1>1, <1>3, <1>4, <1>5

(* link_db_set(true) keeps IInv.                                           *)
LEMMA UpStep ==
  ASSUME IInv, NEW p \in Side, Up(p)
  PROVE  IInv'
<1>1. at[p].i + 1 \in DOMAIN Script[at[p].ph]
  BY Facts, ScriptNext DEF IInv, Up, Step
<1>2. /\ PlaceOK(at', left')
      /\ at'[p] = [ph |-> at[p].ph, i |-> at[p].i + 1]
      /\ \A r \in Side \ {p} : at'[r] = at[r]
  BY <1>1, SkipPlace DEF NextCall, IInv, Up
<1>3. TypeOK'
  BY <1>2 DEF IInv, TypeOK, WireTypeOK, PlaceOK, Up, In
<1>4. DoorbellsComeDown'
  <2>1. Raised(at[p].ph, at[p].i + 1)
    BY Facts, RaisedNext DEF IInv, Step, Up
  <2>2. db' = [db EXCEPT ![p] = TRUE] BY DEF Up
  <2>3. db'[p] /\ Raised(at'[p].ph, at'[p].i)
    BY <1>2, <2>1, <2>2 DEF IInv, TypeOK, WireTypeOK
  <2>4. \A r \in Side \ {p} : db'[r] <=> Raised(at'[r].ph, at'[r].i)
    BY <1>2, <2>2 DEF IInv, TypeOK, WireTypeOK, DoorbellsComeDown
  <2> QED BY <2>3, <2>4 DEF DoorbellsComeDown
<1>5. ChainInv'
  BY <1>2 DEF ChainInv, IInv, In, Side, Up
<1>6. TallyInv'
  <2>1. Verifies(at[p].ph) => at[p].i < 4
    BY Facts, ScriptVerify DEF IInv, Step, Up
  <2>2. Verifies(at[p].ph) => BlocksDone(p)' = BlocksDone(p)
    BY <1>2, <2>1, Facts DEF BlocksDone, IInv, Up
  <2>3. \A r \in Side \ {p} : BlocksDone(r)' = BlocksDone(r)
    BY <1>2 DEF BlocksDone, Up
  <2> QED BY <1>2, <2>2, <2>3 DEF TallyInv, IInv, In, Side, Up
<1> QED BY <1>3, <1>4, <1>5, <1>6 DEF IInv

(* The master's link_db_set(false) keeps IInv.                             *)
LEMMA MasterDownStep ==
  ASSUME IInv, MasterDown
  PROVE  IInv'
<1> DEFINE p == "M"
<1>0. p \in Side BY DEF Side
<1>1. at[p].i + 1 \in DOMAIN Script[at[p].ph]
  BY <1>0, Facts, ScriptNext DEF IInv, MasterDown, Step, Phase
<1>2. /\ PlaceOK(at', left')
      /\ at'[p] = [ph |-> at[p].ph, i |-> at[p].i + 1]
      /\ \A r \in Side \ {p} : at'[r] = at[r]
  BY <1>0, <1>1, SkipPlace DEF NextCall, IInv, MasterDown
<1>3. TypeOK'
  BY <1>2 DEF IInv, TypeOK, WireTypeOK, PlaceOK, MasterDown, In
<1>4. DoorbellsComeDown'
  <2>1. ~Raised(at[p].ph, at[p].i + 1)
    BY <1>0, Facts, RaisedNext DEF IInv, Step, MasterDown
  <2>2. db' = [db EXCEPT ![p] = FALSE] BY DEF MasterDown
  <2>3. ~db'[p] /\ ~Raised(at'[p].ph, at'[p].i)
    BY <1>0, <1>2, <2>1, <2>2 DEF IInv, TypeOK, WireTypeOK
  <2>4. \A r \in Side \ {p} : db'[r] <=> Raised(at'[r].ph, at'[r].i)
    BY <1>2, <2>2 DEF IInv, TypeOK, WireTypeOK, DoorbellsComeDown
  <2> QED BY <2>3, <2>4 DEF DoorbellsComeDown
<1>5. ChainInv'
  BY <1>2 DEF ChainInv, IInv, In, Side, MasterDown
<1>6. TallyInv'
  <2>1. Verifies(at[p].ph) => at[p].i > 4
    BY <1>0, Facts, ScriptVerify DEF IInv, Step, MasterDown
  <2>2. Verifies(at[p].ph) => BlocksDone(p)' = BlocksDone(p)
    BY <1>0, <1>2, <2>1, Facts DEF BlocksDone, IInv, MasterDown
  <2>3. \A r \in Side \ {p} : BlocksDone(r)' = BlocksDone(r)
    BY <1>2 DEF BlocksDone, MasterDown
  <2> QED BY <1>0, <1>2, <2>2, <2>3 DEF TallyInv, IInv, In, Side, MasterDown
<1> QED BY <1>3, <1>4, <1>5, <1>6 DEF IInv

(* What lands in a receiver.                                               *)
LEMMA FrameTypes ==
  ASSUME TypeOK
  PROVE  /\ Request \in Frame /\ Reply \in Frame
         /\ Block \in Frame /\ Noise \in Frame
         /\ \A p \in Side : Sent(p) \in Frame
<1>1. NoTally \in Tally BY WireAssumption DEF NoTally, Tally
<1>2. Block \in Frame /\ Noise \in Frame
  BY <1>1, WireAssumption DEF Block, Noise, Frame
<1>3. OpOf(call.x) \in Op
  BY SessionAssumption DEF TypeOK, OpOf
<1>4. Request \in Frame
  BY <1>1, <1>3 DEF Request, Frame, TypeOK
<1>5. "S" \in Side BY DEF Side
<1>6. Reply \in Frame
  BY <1>5 DEF Reply, Frame, TypeOK
<1> QED BY <1>2, <1>4, <1>6 DEF Sent

(* A receiver stays a receiver whatever lands in it.                       *)
LEMMA LandedType ==
  ASSUME NEW r \in Receiver, NEW kind \in Kind, NEW f \in Frame, NEW fate, Noise \in Frame
  PROVE  Landed(r, kind, f, fate) \in Receiver
<1>1. [f EXCEPT !.good = f.good /\ fate = "whole"] \in Frame BY DEF Frame
<1> QED BY <1>1 DEF Landed, Receiver

(* link_rx_arm keeps IInv.                                                 *)
LEMMA ArmStep ==
  ASSUME IInv, NEW p \in Side, Arm(p)
  PROVE  IInv'
<1>1. at[p].i + 1 \in DOMAIN Script[at[p].ph]
  BY Facts, ScriptNext DEF IInv, Arm, Step
<1>2. PlaceOK(at', left') /\ DoorbellsComeDown' /\ ChainInv' /\ TallyInv'
  BY <1>1, PlainStep DEF Arm
<1>3. rx' \in [Side -> Receiver]
  BY FrameTypes DEF Arm, RxArmed, Receiver, KindOf, Kind, IInv, TypeOK, WireTypeOK
<1>4. TypeOK'
  BY <1>2, <1>3 DEF IInv, TypeOK, WireTypeOK, PlaceOK, Arm, In
<1> QED BY <1>2, <1>4 DEF IInv

(* A doorbell that is seen up keeps IInv.                                  *)
LEMMA SeenHighStep ==
  ASSUME IInv, NEW p \in Side, SeenHigh(p)
  PROVE  IInv'
<1>1. at[p].i + 1 \in DOMAIN Script[at[p].ph]
  BY Facts, ScriptNext DEF IInv, SeenHigh, Step
<1>2. PlaceOK(at', left') /\ DoorbellsComeDown' /\ ChainInv' /\ TallyInv'
  BY <1>1, PlainStep DEF SeenHigh
<1>3. TypeOK'
  BY <1>2 DEF IInv, TypeOK, WireTypeOK, PlaceOK, SeenHigh, In
<1> QED BY <1>2, <1>3 DEF IInv

(* A transmission keeps IInv, whatever becomes of it on the wire.          *)
LEMMA TransmitStep ==
  ASSUME IInv, NEW p \in Side, Transmit(p)
  PROVE  IInv'
<1>1. at[p].i + 1 \in DOMAIN Script[at[p].ph]
  BY Facts, ScriptNext DEF IInv, Transmit, Step
<1>2. PlaceOK(at', left') /\ DoorbellsComeDown' /\ ChainInv' /\ TallyInv'
  BY <1>1, PlainStep DEF Transmit
<1>3. PICK fate \in Fate :
         /\ rx' = [rx EXCEPT ![Peer(p)] = Landed(@, KindOf(at[p].ph), Sent(p), fate)]
         /\ Spend(fate)
  BY DEF Transmit
<1>4. Peer(p) \in Side BY DEF Peer, Side
<1>5. KindOf(at[p].ph) \in Kind BY DEF KindOf, Kind
<1>6. Landed(rx[Peer(p)], KindOf(at[p].ph), Sent(p), fate) \in Receiver
  BY <1>4, <1>5, FrameTypes, LandedType DEF IInv, TypeOK, WireTypeOK
<1>7. rx' \in [Side -> Receiver]
  BY <1>3, <1>4, <1>6 DEF IInv, TypeOK, WireTypeOK
<1>8. faults' \in 0..MaxFaults
  BY <1>3, WireAssumption DEF Fate, Spend, IInv, TypeOK, WireTypeOK
<1>9. TypeOK'
  BY <1>2, <1>7, <1>8 DEF IInv, TypeOK, WireTypeOK, PlaceOK, Transmit, In
<1> QED BY <1>2, <1>9 DEF IInv
---------------------------------------------------------------------------
(* The end of a receive.                                                   *)

(* Every exchange opens with its request and waits for a reply last.       *)
LEMMA ChainShape ==
  ASSUME NEW x
  PROVE  /\ Len(Chain(x)) \in 1..3
         /\ Chain(x)[1] = "send_ctrl"
         /\ \A k \in 1..Len(Chain(x)) : Chain(x)[k] \in MasterPhase \ {"idle", "resync"}
         /\ \A k \in 2..Len(Chain(x)) : Chain(x)[k] # "send_ctrl"
         /\ x = "VERIFY_S2M" => Len(Chain(x)) = 3 /\ Chain(x)[2] = "integrity_recv"
                                /\ Chain(x)[3] = "recv_ctrl"
         /\ \A k \in 1..Len(Chain(x)) : Chain(x)[k] = "integrity_recv"
              => x = "VERIFY_S2M" /\ k = 2
         /\ \A k \in 1..Len(Chain(x)) : Chain(x)[k] = "recv_ctrl" => k = Len(Chain(x))
BY DEF Chain, MasterPhase

(* Counting one more block keeps a tally in its range.                     *)
LEMMA TalliedType ==
  ASSUME NEW t \in Tally, NEW ph, NEW good \in BOOLEAN,
         Verifies(ph) => t.blocks + 1 <= VerifyBlocks /\ t.bad <= t.blocks
  PROVE  /\ Tallied(t, ph, good) \in Tally
         /\ Verifies(ph) => /\ Tallied(t, ph, good).blocks = t.blocks + 1
                            /\ Tallied(t, ph, good).bad <= t.blocks + 1
         /\ ~Verifies(ph) /\ ph \notin {"BULK_M2S", "DUPLEX"}
              => Tallied(t, ph, good) = t
<1>1. VerifyBlocks \in Nat \ {0} BY WireAssumption
<1>2. t.blocks \in 0..VerifyBlocks /\ t.bad \in 0..VerifyBlocks BY DEF Tally
<1>3. CASE Verifies(ph)
  <2>1. CASE good
    BY <1>1, <1>2, <1>3, <2>1 DEF Tallied, Verifies, Tally
  <2>2. CASE ~good
    BY <1>1, <1>2, <1>3, <2>2 DEF Tallied, Verifies, Tally
  <2> QED BY <2>1, <2>2
<1>4. CASE ~Verifies(ph)
  BY <1>1, <1>2, <1>4 DEF Tallied, Tally
<1> QED BY <1>3, <1>4

(* A receive that ends, well or not, moves past itself and counts its      *)
(* block, and disturbs neither doorbells nor the chain.                    *)
LEMMA EndOfReceive ==
  ASSUME IInv, NEW p \in Side, NEW n \in {1, 2}, NEW good \in BOOLEAN,
         Step(p) = "rx", Skip(p, n), n = 2 => at[p].ph = "bulk_recv",
         tally' = [tally EXCEPT ![p] = Tallied(@, at[p].ph, good)],
         UNCHANGED <<db, count, call>>
  PROVE  /\ PlaceOK(at', left') /\ tally' \in [Side -> Tally]
         /\ DoorbellsComeDown' /\ ChainInv' /\ TallyInv'
<1>0. at[p].i + n \in DOMAIN Script[at[p].ph] /\ at[p].i \in Nat \ {0}
  BY Facts, ScriptNext DEF IInv, Step
<1>1. /\ PlaceOK(at', left')
      /\ at'[p] = [ph |-> at[p].ph, i |-> at[p].i + n]
      /\ \A r \in Side \ {p} : at'[r] = at[r]
  BY <1>0, SkipPlace DEF IInv
<1>2. \A r \in Side : at'[r].ph = at[r].ph
  BY <1>1
<1>3. DoorbellsComeDown'
  <2>1. Raised(at[p].ph, at[p].i + 1) <=> Raised(at[p].ph, at[p].i)
    BY <1>0, RaisedNext DEF Step
  <2>2. CASE n = 1
    BY <1>1, <2>1, <2>2 DEF DoorbellsComeDown, IInv, Raised
  <2>3. CASE n = 2
    <3>1. Script[at[p].ph][at[p].i + 1] = "hi"
      BY <2>3, Facts, ScriptNext DEF IInv, Step
    <3>2. Raised(at[p].ph, at[p].i + 1 + 1) <=> Raised(at[p].ph, at[p].i + 1)
      BY <1>0, <3>1, RaisedNext
    <3>3. at[p].i + 1 + 1 = at[p].i + n BY <1>0, <2>3
    <3>4. Raised(at'[p].ph, at'[p].i) <=> Raised(at[p].ph, at[p].i)
      BY <1>1, <2>1, <3>2, <3>3
    <3> QED BY <1>1, <3>4 DEF DoorbellsComeDown, IInv
  <2> QED BY <2>2, <2>3
<1>4. ChainInv'
  BY <1>2 DEF ChainInv, IInv, In, Side
<1>5. Verifies(at[p].ph) =>
        /\ at[p].i = 4 /\ n = 1
        /\ tally[p].blocks = count[p] /\ tally[p].bad <= tally[p].blocks
        /\ tally[p].blocks + 1 <= VerifyBlocks
  <2>1. Verifies(at[p].ph) => at[p].i = 4 /\ n = 1
    BY Facts, ScriptVerify DEF IInv, Step, Verifies
  <2>2. count[p] \in 0..(VerifyBlocks - 1) /\ VerifyBlocks \in Nat \ {0}
    BY WireAssumption DEF IInv, TypeOK
  <2>3. Verifies(at[p].ph) => tally[p].blocks = count[p] /\ tally[p].bad <= tally[p].blocks
    BY <2>1, <2>2 DEF IInv, TallyInv, BlocksDone
  <2> QED BY <2>1, <2>2, <2>3
<1>6. tally[p] \in Tally BY DEF IInv, TypeOK
<1>7. /\ tally'[p] = Tallied(tally[p], at[p].ph, good)
      /\ \A r \in Side \ {p} : tally'[r] = tally[r]
  BY DEF IInv, TypeOK
<1>8. tally' \in [Side -> Tally]
  BY <1>5, <1>6, TalliedType DEF IInv, TypeOK
<1>9. TallyInv'
  <2>1. \A r \in Side : Verifies(at'[r].ph) =>
          tally'[r].blocks = BlocksDone(r)' /\ tally'[r].bad <= tally'[r].blocks
    <3>1. Verifies(at[p].ph) => BlocksDone(p)' = count[p] + 1
      BY <1>0, <1>1, <1>5 DEF BlocksDone
    <3>2. Verifies(at[p].ph) =>
            tally'[p].blocks = BlocksDone(p)' /\ tally'[p].bad <= tally'[p].blocks
      BY <1>5, <1>6, <1>7, <3>1, TalliedType
    <3>3. \A r \in Side \ {p} : BlocksDone(r)' = BlocksDone(r)
      BY <1>1 DEF BlocksDone
    <3>4. \A r \in Side \ {p} : Verifies(at'[r].ph) =>
            tally'[r].blocks = BlocksDone(r)' /\ tally'[r].bad <= tally'[r].blocks
      BY <1>2, <1>7, <3>3 DEF IInv, TallyInv
    <3> QED BY <1>2, <3>2, <3>4
  <2>2. ~In("M", {"idle", "resync"})' /\ call'.k = 1 => tally'["M"] = NoTally
    <3>1. CASE p = "M"
      <4>1. at["M"].ph # "send_ctrl"
        BY <3>1, Facts, ScriptRx DEF IInv, Step
      <4> QED BY <1>2, <3>1, <4>1, ChainShape DEF IInv, ChainInv, In, Side
    <3>2. CASE p # "M"
      BY <1>2, <1>7, <3>2 DEF IInv, TallyInv, In, Side
    <3> QED BY <3>1, <3>2
  <2>3. In("M", {"recv_ctrl"})' /\ call'.x = "VERIFY_S2M"
          => tally'["M"].blocks = VerifyBlocks
    <3>1. CASE p = "M"
      BY <1>2, <1>5, <1>6, <1>7, <3>1, TalliedType DEF IInv, TallyInv, In, Side, Verifies
    <3>2. CASE p # "M"
      BY <1>2, <1>7, <3>2 DEF IInv, TallyInv, In, Side
    <3> QED BY <3>1, <3>2
  <2> QED BY <2>1, <2>2, <2>3 DEF TallyInv
<1> QED BY <1>1, <1>3, <1>4, <1>8, <1>9

(* A completed receive keeps IInv.                                         *)
LEMMA ReceivedStep ==
  ASSUME IInv, NEW p \in Side, Received(p)
  PROVE  IInv'
<1> DEFINE good == Verifies(at[p].ph) => rx[p].got.good
<1>1. good \in BOOLEAN OBVIOUS
<1>2. tally' = [tally EXCEPT ![p] = Tallied(@, at[p].ph, good)]
  BY Zenon DEF Received
<1>3. Step(p) = "rx" /\ Skip(p, 1) /\ UNCHANGED <<db, count, call>>
  BY DEF Received, NextCall
<1> HIDE DEF good
<1>4. /\ PlaceOK(at', left') /\ tally' \in [Side -> Tally]
      /\ DoorbellsComeDown' /\ ChainInv' /\ TallyInv'
  <2>1. 1 \in {1, 2} /\ (1 = 2 => at[p].ph = "bulk_recv") OBVIOUS
  <2> QED BY <1>1, <1>2, <1>3, <2>1, EndOfReceive, Zenon
<1>5. TypeOK'
  BY <1>4 DEF IInv, TypeOK, WireTypeOK, PlaceOK, Received, In
<1> QED BY <1>4, <1>5 DEF IInv

(* So does a receive that is given up.                                     *)
LEMMA RxTimeoutStep ==
  ASSUME IInv, NEW p \in Side, RxTimeout(p)
  PROVE  IInv'
<1> DEFINE n == IF In(p, {"bulk_recv"}) THEN 2 ELSE 1
<1>1. n \in {1, 2} /\ (n = 2 => at[p].ph = "bulk_recv") BY DEF In
<1>2. /\ PlaceOK(at', left') /\ tally' \in [Side -> Tally]
      /\ DoorbellsComeDown' /\ ChainInv' /\ TallyInv'
  BY <1>1, EndOfReceive DEF RxTimeout
<1>3. rx' \in [Side -> Receiver]
  BY FrameTypes DEF RxTimeout, RxOff, Receiver, Kind, IInv, TypeOK, WireTypeOK
<1>4. ok' \in [Side -> BOOLEAN]
  <2>1. In(p, {"integrity_recv"}) \in BOOLEAN BY DEF In
  <2> QED BY <2>1, Zenon DEF RxTimeout, IInv, TypeOK
<1>5. TypeOK'
  BY <1>2, <1>3, <1>4 DEF IInv, TypeOK, WireTypeOK, PlaceOK, RxTimeout, In
<1> QED BY <1>2, <1>5 DEF IInv
---------------------------------------------------------------------------
(* The end of a function of the master.                                    *)

(* Back in the caller, or resyncing for it, the master holds nothing.      *)
LEMMA ReturnKeeps ==
  ASSUME IInv, NEW good \in BOOLEAN, Return(good), UNCHANGED tally,
         ~db'["M"], db'["S"] = db["S"]
  PROVE  /\ PlaceOK(at', left') /\ ok' \in [Side -> BOOLEAN]
         /\ count' \in [Side -> 0..(VerifyBlocks - 1)]
         /\ call' = call
         /\ rate' \in [Side -> Divider]
         /\ answer' \in [x : Op \cup {"PROBE", "none"}, ok : BOOLEAN, fresh : BOOLEAN, sum : Tally]
         /\ DoorbellsComeDown' /\ ChainInv' /\ TallyInv'
<1>0. "M" \in Side /\ "S" \in Side BY DEF Side
<1>1. PICK ph \in {"idle", "resync"} : Begin("M", ph)
  <2>1. AfterFailure(call.x) \subseteq {"idle", "resync"} BY DEF AfterFailure
  <2>2. \A b \in BOOLEAN : (IF b THEN {"idle"} ELSE AfterFailure(call.x))
                           \subseteq {"idle", "resync"}
    BY <2>1
  <2> QED BY <2>1, <2>2 DEF Return
<1>2. ph \in Phase("M") BY DEF Phase, MasterPhase
<1>3. /\ PlaceOK(at', left')
      /\ at'["M"] = [ph |-> ph, i |-> 1]
      /\ \A r \in Side \ {"M"} : at'[r] = at[r]
      /\ ok' \in [Side -> BOOLEAN]
  BY <1>0, <1>1, <1>2, BeginPlace DEF IInv
<1>4. count' = count /\ call' = call BY DEF Return
<1>5. rate' \in [Side -> Divider]
  BY DEF Return, IInv, TypeOK
<1>6. answer' \in [x : Op \cup {"PROBE", "none"}, ok : BOOLEAN, fresh : BOOLEAN, sum : Tally]
  <2>1. rx["M"].got.cur \in BOOLEAN /\ rx["M"].got.sum \in Tally
    BY <1>0 DEF IInv, TypeOK, WireTypeOK, Receiver, Frame
  <2>2. tally["M"] \in Tally BY <1>0 DEF IInv, TypeOK
  <2>3. PICK a \in BOOLEAN, f \in BOOLEAN, t \in Tally :
          answer' = [x |-> call.x, ok |-> a, fresh |-> f, sum |-> t]
    <3> DEFINE a == good /\ (call.x \in ChecksOp => IsReply(rx["M"].got, call.x))
               f == rx["M"].got.cur /\ IsReply(rx["M"].got, call.x)
               t == IF call.x = "VERIFY_S2M" THEN tally["M"] ELSE rx["M"].got.sum
    <3>1. a \in BOOLEAN /\ f \in BOOLEAN OBVIOUS
    <3>2. t \in Tally BY <2>1, <2>2
    <3>3. answer' = [x |-> call.x, ok |-> a, fresh |-> f, sum |-> t]
      BY Zenon DEF Return
    <3> HIDE DEF a, f, t
    <3> QED BY <3>1, <3>2, <3>3
  <2> QED BY <2>3 DEF IInv, TypeOK
<1>7. DoorbellsComeDown'
  BY <1>0, <1>3, RaisedFirst DEF DoorbellsComeDown, IInv, Side
<1>8. ChainInv'
  BY <1>3, <1>4 DEF ChainInv, IInv, In
<1>9. TallyInv'
  <2>1. ~Verifies(at'["M"].ph) BY <1>3 DEF Verifies
  <2>2. BlocksDone("S")' = BlocksDone("S")
    BY <1>3, <1>4 DEF BlocksDone, Side
  <2> QED BY <1>0, <1>3, <1>4, <2>1, <2>2 DEF TallyInv, IInv, In, Side
<1> QED BY <1>3, <1>4, <1>5, <1>6, <1>7, <1>8, <1>9 DEF IInv, TypeOK

(* A function of the master that ends with its doorbell down, and well     *)
(* only where its script ends, leads to a state that satisfies IInv.       *)
LEMMA FinishKeeps ==
  ASSUME IInv, NEW good \in BOOLEAN, Finish(good),
         ~In("M", {"idle", "resync"}), good => Step("M") = "lo",
         ~db'["M"], db'["S"] = db["S"]
  PROVE  /\ PlaceOK(at', left') /\ ok' \in [Side -> BOOLEAN]
         /\ count' \in [Side -> 0..(VerifyBlocks - 1)]
         /\ call' \in [x : Op \cup {"PROBE"}, q : Divider, k : 1..3]
         /\ rate' \in [Side -> Divider]
         /\ answer' \in [x : Op \cup {"PROBE", "none"}, ok : BOOLEAN, fresh : BOOLEAN, sum : Tally]
         /\ DoorbellsComeDown' /\ ChainInv' /\ TallyInv'
<1>0. "M" \in Side /\ "S" \in Side BY DEF Side
<1>1. /\ call.k \in 1..Len(Chain(call.x)) /\ Len(Chain(call.x)) \in 1..3
      /\ at["M"].ph = Chain(call.x)[call.k]
      /\ at["M"].ph \in Phase("M")
  BY <1>0, Facts, ChainShape DEF IInv, ChainInv
<1>2. count["M"] \in 0..(VerifyBlocks - 1) /\ VerifyBlocks \in Nat \ {0}
  BY <1>0, WireAssumption DEF IInv, TypeOK
<1>3. good /\ Verifies(at["M"].ph) => tally["M"].blocks = count["M"] + 1
  <2>1. good /\ Verifies(at["M"].ph) => at["M"].i > 4
    BY <1>0, Facts, ScriptVerify DEF IInv, Step
  <2> QED BY <1>0, <1>2, <2>1 DEF IInv, TallyInv, BlocksDone
<1>4. tally' = tally BY DEF Finish
<1>5. CASE good /\ MoreBlocks("M") /\ count' = [count EXCEPT !["M"] = @ + 1]
           /\ Begin("M", at["M"].ph) /\ UNCHANGED <<answer, rate, call>>
  <2>1. /\ PlaceOK(at', left')
        /\ at'["M"] = [ph |-> at["M"].ph, i |-> 1]
        /\ \A r \in Side \ {"M"} : at'[r] = at[r]
        /\ ok' \in [Side -> BOOLEAN]
    BY <1>0, <1>5, <1>1, BeginPlace DEF IInv
  <2>2. count' \in [Side -> 0..(VerifyBlocks - 1)] /\ count'["M"] = count["M"] + 1
        /\ count'["S"] = count["S"]
    BY <1>0, <1>5, <1>2 DEF MoreBlocks, IInv, TypeOK
  <2>3. DoorbellsComeDown'
    BY <1>0, <2>1, RaisedFirst DEF DoorbellsComeDown, IInv, Side
  <2>4. ChainInv'
    BY <1>5, <2>1 DEF ChainInv, IInv, In
  <2>5. TallyInv'
    <3>1. BlocksDone("M")' = count["M"] + 1
      BY <1>2, <2>1, <2>2 DEF BlocksDone
    <3>2. BlocksDone("S")' = BlocksDone("S")
      BY <2>1, <2>2 DEF BlocksDone, Side
    <3> QED BY <1>0, <1>5, <1>3, <1>4, <2>1, <3>1, <3>2 DEF TallyInv, IInv, In, Side
  <2> QED BY <1>5, <2>1, <2>2, <2>3, <2>4, <2>5 DEF IInv, TypeOK
<1>6. CASE good /\ ~MoreBlocks("M") /\ call.k < Len(Chain(call.x))
           /\ call' = [call EXCEPT !.k = @ + 1]
           /\ count' = [count EXCEPT !["M"] = 0]
           /\ Begin("M", Chain(call.x)[call.k + 1])
           /\ UNCHANGED <<answer, rate>>
  <2> DEFINE ph == Chain(call.x)[call.k + 1]
  <2>1. call.k + 1 \in 2..Len(Chain(call.x)) /\ call.k + 1 \in 1..Len(Chain(call.x))
    BY <1>6, <1>1
  <2>2. ph \in MasterPhase \ {"idle", "resync"} /\ ph # "send_ctrl" /\ ph \in Phase("M")
    BY <2>1, ChainShape DEF Phase
  <2>3. /\ PlaceOK(at', left')
        /\ at'["M"] = [ph |-> ph, i |-> 1]
        /\ \A r \in Side \ {"M"} : at'[r] = at[r]
        /\ ok' \in [Side -> BOOLEAN]
    BY <1>0, <1>6, <2>2, BeginPlace DEF IInv
  <2>4. count' \in [Side -> 0..(VerifyBlocks - 1)] /\ count'["M"] = 0
        /\ count'["S"] = count["S"]
    BY <1>0, <1>6, <1>2 DEF IInv, TypeOK
  <2>5. call' \in [x : Op \cup {"PROBE"}, q : Divider, k : 1..3]
        /\ call'.x = call.x /\ call'.k = call.k + 1
    <3>1. call \in [x : Op \cup {"PROBE"}, q : Divider, k : 1..3]
      BY DEF IInv, TypeOK
    <3>2. call.k + 1 \in 1..3
      <4>1. call.k \in 1..3 /\ Len(Chain(call.x)) \in 1..3 BY <1>1, <3>1
      <4> HIDE DEF ph
      <4> QED BY <1>6, <4>1
    <3> QED BY <1>6, <3>1, <3>2
  <2>6. DoorbellsComeDown'
    BY <1>0, <2>3, RaisedFirst DEF DoorbellsComeDown, IInv, Side
  <2>7. ChainInv'
    BY <2>1, <2>3, <2>5 DEF ChainInv
  <2>8. TallyInv'
    <3>1. BlocksDone("M")' = 0 /\ BlocksDone("S")' = BlocksDone("S")
      BY <2>3, <2>4 DEF BlocksDone, Side
    <3>2. Verifies(ph) => tally["M"] = NoTally
      BY <1>1, <2>1, <2>2, ChainShape DEF IInv, TallyInv, Verifies, MasterPhase
    <3>3. ph = "recv_ctrl" /\ call.x = "VERIFY_S2M" => tally["M"].blocks = VerifyBlocks
      <4> SUFFICES ASSUME ph = "recv_ctrl", call.x = "VERIFY_S2M"
                   PROVE  tally["M"].blocks = VerifyBlocks
        OBVIOUS
      <4>1. call.k + 1 = 3 BY <2>1, ChainShape
      <4>2. at["M"].ph = "integrity_recv" BY <1>1, <4>1, ChainShape
      <4>3. count["M"] + 1 = VerifyBlocks
        BY <1>6, <1>2, <4>2 DEF MoreBlocks, In, Verified
      <4> QED BY <1>6, <1>3, <4>2, <4>3 DEF Verifies
    <3>4. call'.k # 1 BY <2>1, <2>5
    <3>5. \A r \in Side : Verifies(at'[r].ph) =>
            tally'[r].blocks = BlocksDone(r)' /\ tally'[r].bad <= tally'[r].blocks
      <4>1. Verifies(at'["M"].ph) =>
            tally'["M"].blocks = BlocksDone("M")' /\ tally'["M"].bad <= tally'["M"].blocks
        BY <1>4, <2>3, <3>1, <3>2 DEF NoTally
      <4>2. Verifies(at'["S"].ph) =>
            tally'["S"].blocks = BlocksDone("S")' /\ tally'["S"].bad <= tally'["S"].blocks
        BY <1>0, <1>4, <2>3, <3>1 DEF IInv, TallyInv, Side
      <4> QED BY <4>1, <4>2 DEF Side
    <3> QED BY <1>4, <2>3, <2>5, <3>3, <3>4, <3>5 DEF TallyInv, In
  <2> QED BY <1>6, <2>3, <2>4, <2>5, <2>6, <2>7, <2>8 DEF IInv, TypeOK
<1>7. CASE Return(good)
  BY <1>7, <1>4, ReturnKeeps DEF IInv, TypeOK
<1> QED BY <1>5, <1>6, <1>7, Zenon DEF Finish
---------------------------------------------------------------------------
(* The master's own actions.                                               *)

(* Only the idle master rests, and only the resync is quiet or naps.       *)
LEMMA ScriptIdle ==
  ASSUME NEW ph \in MasterPhase, NEW i \in DOMAIN Script[ph]
  PROVE  /\ Script[ph][i] \in {"hi", "down"} => ph \notin {"idle", "resync"}
         /\ Script[ph][i] = "lo" => ph # "idle"
         /\ Script[ph][i] \in {"quiet", "nap"} => ph = "resync"
BY DEF Script, MasterPhase

(* A doorbell of the slave that never came up keeps IInv.                  *)
LEMMA UnansweredStep ==
  ASSUME IInv, Unanswered
  PROVE  IInv'
<1>0. "M" \in Side /\ "S" \in Side BY DEF Side
<1>1. at["M"].ph \in MasterPhase /\ Step("M") = "hi" /\ ~In("M", {"idle", "resync"})
  BY <1>0, Facts, ScriptIdle DEF Unanswered, IInv, Phase, Step, In
<1>2. CASE In("M", {"bulk_recv"})
  <2>1. at["M"].i + 1 \in DOMAIN Script[at["M"].ph]
    BY <1>0, <1>1, Facts, ScriptNext DEF IInv, Step
  <2>2. NextCall("M") /\ UNCHANGED <<db, rx, faults, count, tally, rate, call, answer, req, served, dog, stuck>>
        /\ ok' = [ok EXCEPT !["M"] = FALSE]
    BY <1>2 DEF Unanswered
  <2>3. PlaceOK(at', left') /\ DoorbellsComeDown' /\ ChainInv' /\ TallyInv'
    BY <1>0, <1>1, <2>1, <2>2, PlainStep
  <2>4. TypeOK'
    BY <2>2, <2>3 DEF IInv, TypeOK, WireTypeOK, PlaceOK, In
  <2> QED BY <2>3, <2>4 DEF IInv
<1>3. CASE ~In("M", {"bulk_recv"})
  <2>1. /\ db' = [db EXCEPT !["M"] = FALSE]
        /\ rx' = IF Script[at["M"].ph][1] = "arm"
                 THEN [rx EXCEPT !["M"] = RxOff] ELSE rx
        /\ Finish(FALSE)
        /\ UNCHANGED <<faults, req, served, dog, stuck>>
    BY <1>3 DEF Unanswered
  <2>2. ~db'["M"] /\ db'["S"] = db["S"] /\ db' \in [Side -> BOOLEAN]
    BY <1>0, <2>1 DEF IInv, TypeOK, WireTypeOK
  <2>3. rx' \in [Side -> Receiver]
    BY <2>1, FrameTypes DEF RxOff, Receiver, Kind, IInv, TypeOK, WireTypeOK
  <2>4. /\ PlaceOK(at', left') /\ ok' \in [Side -> BOOLEAN]
        /\ count' \in [Side -> 0..(VerifyBlocks - 1)]
        /\ call' \in [x : Op \cup {"PROBE"}, q : Divider, k : 1..3]
        /\ rate' \in [Side -> Divider]
        /\ answer' \in [x : Op \cup {"PROBE", "none"}, ok : BOOLEAN, fresh : BOOLEAN, sum : Tally]
        /\ DoorbellsComeDown' /\ ChainInv' /\ TallyInv'
    BY <1>1, <2>1, <2>2, FinishKeeps
  <2>5. tally' = tally BY <2>1 DEF Finish
  <2>6. TypeOK'
    BY <2>1, <2>2, <2>3, <2>4, <2>5 DEF IInv, TypeOK, WireTypeOK, PlaceOK, In
  <2> QED BY <2>4, <2>6 DEF IInv
<1> QED BY <1>2, <1>3

(* Both ways a function of the master ends at its last wait.               *)
LEMMA LastWaitStep ==
  ASSUME IInv, NEW good \in BOOLEAN, Finish(good),
         Step("M") = "lo", ~In("M", {"resync"}),
         UNCHANGED <<db, rx, faults, req, served, dog, stuck>>
  PROVE  IInv'
<1>0. "M" \in Side /\ "S" \in Side BY DEF Side
<1>1. at["M"].ph \in MasterPhase /\ ~In("M", {"idle", "resync"})
  BY <1>0, Facts, ScriptIdle DEF IInv, Phase, Step, In
<1>2. ~db'["M"] /\ db'["S"] = db["S"]
  BY <1>0, <1>1, Facts, RaisedLast DEF IInv, DoorbellsComeDown, Step
<1>3. /\ PlaceOK(at', left') /\ ok' \in [Side -> BOOLEAN]
      /\ count' \in [Side -> 0..(VerifyBlocks - 1)]
      /\ call' \in [x : Op \cup {"PROBE"}, q : Divider, k : 1..3]
      /\ rate' \in [Side -> Divider]
      /\ answer' \in [x : Op \cup {"PROBE", "none"}, ok : BOOLEAN, fresh : BOOLEAN, sum : Tally]
      /\ DoorbellsComeDown' /\ ChainInv' /\ TallyInv'
  BY <1>1, <1>2, FinishKeeps
<1>4. tally' = tally BY DEF Finish
<1>5. TypeOK'
  BY <1>3, <1>4 DEF IInv, TypeOK, WireTypeOK, PlaceOK, In
<1> QED BY <1>3, <1>5 DEF IInv

(* The slave dropping its doorbell in time keeps IInv.                     *)
LEMMA SettledStep ==
  ASSUME IInv, Settled
  PROVE  IInv'
<1>1. Result \in BOOLEAN
  BY DEF Result, IInv, TypeOK, WireTypeOK, Side, Receiver, Frame
<1> HIDE DEF Result
<1> QED BY <1>1, LastWaitStep DEF Settled

(* So does the slave not dropping it in time.                              *)
LEMMA UnsettledStep ==
  ASSUME IInv, Unsettled
  PROVE  IInv'
<1> DEFINE good == /\ Result
                   /\ ~In("M", {"send_ctrl", "integrity_send", "integrity_recv"})
<1>1. good \in BOOLEAN OBVIOUS
<1>2. Finish(good) /\ Step("M") = "lo" /\ ~In("M", {"resync"})
      /\ UNCHANGED <<db, rx, faults, req, served, dog, stuck>>
  BY Zenon DEF Unsettled
<1> HIDE DEF good
<1> QED BY <1>1, <1>2, LastWaitStep

(* The start of link_m_resync keeps IInv.                                  *)
LEMMA ResyncQuietStep ==
  ASSUME IInv, ResyncQuiet
  PROVE  IInv'
<1>0. "M" \in Side /\ "S" \in Side BY DEF Side
<1>1. at["M"].ph = "resync" /\ at["M"].i + 1 \in DOMAIN Script[at["M"].ph]
  BY <1>0, Facts, ScriptIdle, ScriptNext DEF IInv, ResyncQuiet, Step, Phase
<1>2. ~db["M"]
  BY <1>0, <1>1, Facts, RaisedLast DEF IInv, DoorbellsComeDown
<1>3. db' = db
  BY <1>0, <1>2 DEF ResyncQuiet, IInv, TypeOK, WireTypeOK
<1>4. PlaceOK(at', left') /\ DoorbellsComeDown' /\ ChainInv' /\ TallyInv'
  BY <1>0, <1>1, <1>3, PlainStep DEF ResyncQuiet
<1>5. rx' \in [Side -> Receiver]
  BY FrameTypes DEF ResyncQuiet, RxOff, Receiver, Kind, IInv, TypeOK, WireTypeOK
<1>6. TypeOK'
  BY <1>3, <1>4, <1>5 DEF IInv, TypeOK, WireTypeOK, PlaceOK, ResyncQuiet, In
<1> QED BY <1>4, <1>6 DEF IInv

(* So does the end of its sleep.                                           *)
LEMMA ResyncWakeStep ==
  ASSUME IInv, ResyncWake
  PROVE  IInv'
<1>0. "M" \in Side BY DEF Side
<1>1. at["M"].i + 1 \in DOMAIN Script[at["M"].ph]
  BY <1>0, Facts, ScriptNext DEF IInv, ResyncWake, Step, Phase
<1>2. PlaceOK(at', left') /\ DoorbellsComeDown' /\ ChainInv' /\ TallyInv'
  BY <1>0, <1>1, PlainStep DEF ResyncWake
<1>3. TypeOK'
  BY <1>2 DEF IInv, TypeOK, WireTypeOK, PlaceOK, ResyncWake, In
<1> QED BY <1>2, <1>3 DEF IInv

(* So does its return.                                                     *)
LEMMA ResyncDoneStep ==
  ASSUME IInv, ResyncDone
  PROVE  IInv'
<1>0. "M" \in Side /\ "S" \in Side BY DEF Side
<1>1. "idle" \in Phase("M") /\ Begin("M", "idle") BY DEF Phase, MasterPhase, ResyncDone
<1>2. /\ PlaceOK(at', left')
      /\ at'["M"] = [ph |-> "idle", i |-> 1]
      /\ \A r \in Side \ {"M"} : at'[r] = at[r]
      /\ ok' \in [Side -> BOOLEAN]
  BY <1>0, <1>1, BeginPlace DEF IInv
<1>3. TypeOK'
  BY <1>2 DEF IInv, TypeOK, WireTypeOK, PlaceOK, ResyncDone, In
<1>4. ~db["M"]
  BY <1>0, Facts, RaisedLast DEF IInv, DoorbellsComeDown, ResyncDone, In
<1>5. DoorbellsComeDown'
  BY <1>0, <1>2, <1>4, RaisedFirst DEF DoorbellsComeDown, IInv, Side, ResyncDone
<1>6. ChainInv'
  BY <1>2 DEF ChainInv, IInv, In, ResyncDone
<1>7. TallyInv'
  <2>1. ~Verifies(at'["M"].ph) BY <1>2 DEF Verifies
  <2>2. BlocksDone("S")' = BlocksDone("S")
    BY <1>2 DEF BlocksDone, Side, ResyncDone
  <2> QED BY <1>0, <1>2, <2>1, <2>2 DEF TallyInv, IInv, In, Side, ResyncDone
<1> QED BY <1>3, <1>5, <1>6, <1>7 DEF IInv
---------------------------------------------------------------------------
(* The slave's own actions.                                                *)

(* The slave may start any function with its doorbell down, a verifying    *)
(* one only with as many blocks tallied as it has behind it.               *)
LEMMA SlaveBegins ==
  ASSUME IInv, NEW ph \in SlavePhase, Begin("S", ph),
         ~db'["S"], db'["M"] = db["M"], UNCHANGED call,
         tally'["M"] = tally["M"], count'["M"] = count["M"], count'["S"] \in Nat,
         Verifies(ph) => /\ tally'["S"].blocks = count'["S"]
                         /\ tally'["S"].bad <= tally'["S"].blocks
  PROVE  /\ PlaceOK(at', left') /\ ok' \in [Side -> BOOLEAN]
         /\ DoorbellsComeDown' /\ ChainInv' /\ TallyInv'
<1>0. "M" \in Side /\ "S" \in Side BY DEF Side
<1>1. ph \in Phase("S") BY DEF Phase
<1>2. /\ PlaceOK(at', left')
      /\ at'["S"] = [ph |-> ph, i |-> 1]
      /\ \A r \in Side \ {"S"} : at'[r] = at[r]
      /\ ok' \in [Side -> BOOLEAN]
  BY <1>0, <1>1, BeginPlace DEF IInv
<1>3. at'["M"] = at["M"] BY <1>0, <1>2
<1>4. DoorbellsComeDown'
  BY <1>0, <1>2, <1>3, RaisedFirst DEF DoorbellsComeDown, IInv, Side
<1>5. ChainInv'
  BY <1>3 DEF ChainInv, IInv, In
<1>6. TallyInv'
  <2>1. BlocksDone("M")' = BlocksDone("M") BY <1>3 DEF BlocksDone
  <2>2. BlocksDone("S")' = count'["S"] BY <1>2 DEF BlocksDone
  <2>3. \A r \in Side : Verifies(at'[r].ph) =>
          tally'[r].blocks = BlocksDone(r)' /\ tally'[r].bad <= tally'[r].blocks
    BY <1>2, <1>3, <2>1, <2>2 DEF TallyInv, IInv, Side
  <2> QED BY <1>3, <2>3 DEF TallyInv, IInv, In
<1> QED BY <1>2, <1>4, <1>5, <1>6

(* What the assumptions say of the constants.                              *)
LEMMA Constants ==
  /\ WatchdogUs \in 0..WatchdogUs /\ BootUs \in Nat
  /\ VerifyBlocks \in Nat \ {0} /\ 0 \in 0..(VerifyBlocks - 1)
  /\ 4 \in Divider /\ NoTally \in Tally
BY WireAssumption, SessionAssumption DEF NoTally, Tally

(* A doorbell of the master that never came up keeps IInv.                 *)
LEMMA UnrungStep ==
  ASSUME IInv, Unrung
  PROVE  IInv'
<1>0. "M" \in Side /\ "S" \in Side BY DEF Side
<1>1. at["S"].ph \in SlavePhase /\ ~db["S"]
  BY <1>0, Facts, RaisedLast DEF IInv, Unrung, Step, Phase, DoorbellsComeDown
<1>2. count["S"] \in Nat BY <1>0, Constants DEF IInv, TypeOK
<1>3. CASE /\ rate' = IF In("S", {"put_ctrl"}) /\ req.op = "RATE"
                      THEN [rate EXCEPT !["S"] = req.arg] ELSE rate
           /\ Serve
  <2>1. Begin("S", "take_ctrl") /\ dog' = WatchdogUs BY <1>3 DEF Serve
  <2>2. /\ PlaceOK(at', left') /\ ok' \in [Side -> BOOLEAN]
        /\ DoorbellsComeDown' /\ ChainInv' /\ TallyInv'
    BY <1>1, <1>2, <2>1, SlaveBegins DEF Unrung, Verifies, SlavePhase
  <2>3. rate' \in [Side -> Divider]
    BY <1>3 DEF IInv, TypeOK, Frame
  <2>4. TypeOK'
    BY <2>1, <2>2, <2>3, Constants DEF IInv, TypeOK, WireTypeOK, PlaceOK, Unrung, In
  <2> QED BY <2>2, <2>4 DEF IInv
<1>4. CASE Begin("S", "put_ctrl") /\ UNCHANGED <<rate, dog>>
  <2>1. /\ PlaceOK(at', left') /\ ok' \in [Side -> BOOLEAN]
        /\ DoorbellsComeDown' /\ ChainInv' /\ TallyInv'
    BY <1>1, <1>2, <1>4, SlaveBegins DEF Unrung, Verifies, SlavePhase
  <2>2. TypeOK'
    BY <1>4, <2>1 DEF IInv, TypeOK, WireTypeOK, PlaceOK, Unrung, In
  <2> QED BY <2>1, <2>2 DEF IInv
<1>5. CASE NextCall("S") /\ UNCHANGED <<ok, rate, dog>>
  <2>1. at["S"].i + 1 \in DOMAIN Script[at["S"].ph]
    BY <1>0, Facts, ScriptNext DEF IInv, Unrung, Step
  <2>2. PlaceOK(at', left') /\ DoorbellsComeDown' /\ ChainInv' /\ TallyInv'
    BY <1>0, <1>5, <2>1, PlainStep DEF Unrung
  <2>3. TypeOK'
    BY <1>5, <2>2 DEF IInv, TypeOK, WireTypeOK, PlaceOK, Unrung, In
  <2> QED BY <2>2, <2>3 DEF IInv
<1> QED BY <1>3, <1>4, <1>5 DEF Unrung

(* The end of the slave's wait for the doorbell to drop keeps IInv.        *)
LEMMA SlaveLowStep ==
  ASSUME IInv, SlaveLow
  PROVE  IInv'
<1>0. "S" \in Side BY DEF Side
<1>1. at["S"].i + 1 \in DOMAIN Script[at["S"].ph]
  BY <1>0, Facts, ScriptNext DEF IInv, SlaveLow, Step, Phase
<1>2. PlaceOK(at', left') /\ DoorbellsComeDown' /\ ChainInv' /\ TallyInv'
  BY <1>0, <1>1, PlainStep DEF SlaveLow
<1>3. TypeOK'
  BY <1>2 DEF IInv, TypeOK, WireTypeOK, PlaceOK, SlaveLow, In
<1> QED BY <1>2, <1>3 DEF IInv

(* The end of a function of the slave keeps IInv.                          *)
LEMMA SlaveDownStep ==
  ASSUME IInv, SlaveDown
  PROVE  IInv'
<1>0. "M" \in Side /\ "S" \in Side BY DEF Side
<1>1. ~db'["S"] /\ db'["M"] = db["M"] /\ db' \in [Side -> BOOLEAN]
  BY <1>0 DEF SlaveDown, IInv, TypeOK, WireTypeOK
<1>2. count["S"] \in Nat BY <1>0, Constants DEF IInv, TypeOK
<1>3. call' = call /\ UNCHANGED <<rx, faults, call, answer, stuck>> BY DEF SlaveDown
<1>4. CASE In("S", {"take_ctrl"}) /\ Dispatch
  <2> DEFINE f == rx["S"].got
  <2>1. f \in Frame
    BY <1>0 DEF IInv, TypeOK, WireTypeOK, Receiver
  <2>2. CASE ok["S"] /\ f.good
    <3> DEFINE ph == IF f.op \in DataPhase THEN f.op ELSE "put_ctrl"
    <3>1. /\ req' = f /\ served' = served + (IF f.cur THEN 1 ELSE 0)
          /\ tally' = [tally EXCEPT !["S"] = NoTally]
          /\ count' = [count EXCEPT !["S"] = 0]
          /\ Begin("S", ph) /\ UNCHANGED <<rate, dog>>
      BY <1>4, <2>2 DEF Dispatch
    <3>2. ph \in SlavePhase BY DEF SlavePhase
    <3>3. /\ tally' \in [Side -> Tally] /\ tally'["M"] = tally["M"] /\ tally'["S"] = NoTally
          /\ count' \in [Side -> 0..(VerifyBlocks - 1)] /\ count'["M"] = count["M"]
          /\ count'["S"] = 0
      BY <1>0, <3>1, Constants DEF IInv, TypeOK
    <3>4. served' \in Nat
      BY <3>1 DEF IInv, TypeOK
    <3> HIDE DEF ph
    <3>5. /\ PlaceOK(at', left') /\ ok' \in [Side -> BOOLEAN]
          /\ DoorbellsComeDown' /\ ChainInv' /\ TallyInv'
      BY <1>1, <1>3, <3>1, <3>2, <3>3, SlaveBegins DEF NoTally
    <3>6. TypeOK'
      BY <1>1, <1>3, <2>1, <3>1, <3>3, <3>4, <3>5
      DEF IInv, TypeOK, WireTypeOK, PlaceOK, In
    <3> QED BY <3>5, <3>6 DEF IInv
  <2>3. CASE ~(ok["S"] /\ f.good)
    <3>1. Begin("S", "take_ctrl") /\ dog' = WatchdogUs
          /\ UNCHANGED <<req, served, tally, count, rate>>
      BY <1>4, <2>3 DEF Dispatch, Serve
    <3>2. /\ PlaceOK(at', left') /\ ok' \in [Side -> BOOLEAN]
          /\ DoorbellsComeDown' /\ ChainInv' /\ TallyInv'
      BY <1>1, <1>2, <1>3, <3>1, SlaveBegins DEF Verifies, SlavePhase
    <3>3. TypeOK'
      BY <1>1, <1>3, <3>1, <3>2, Constants DEF IInv, TypeOK, WireTypeOK, PlaceOK, In
    <3> QED BY <3>2, <3>3 DEF IInv
  <2> QED BY <2>2, <2>3
<1>5. CASE /\ rate' = IF In("S", {"put_ctrl"}) /\ req.op = "RATE"
                      THEN [rate EXCEPT !["S"] = req.arg] ELSE rate
           /\ Serve
           /\ UNCHANGED <<req, served, tally, count>>
  <2>1. Begin("S", "take_ctrl") /\ dog' = WatchdogUs BY <1>5 DEF Serve
  <2>2. /\ PlaceOK(at', left') /\ ok' \in [Side -> BOOLEAN]
        /\ DoorbellsComeDown' /\ ChainInv' /\ TallyInv'
    BY <1>1, <1>2, <1>3, <1>5, <2>1, SlaveBegins DEF Verifies, SlavePhase
  <2>3. rate' \in [Side -> Divider]
    BY <1>5 DEF IInv, TypeOK, Frame
  <2>4. TypeOK'
    BY <1>1, <1>3, <1>5, <2>1, <2>2, <2>3, Constants
    DEF IInv, TypeOK, WireTypeOK, PlaceOK, In
  <2> QED BY <2>2, <2>4 DEF IInv
<1>6. CASE /\ MoreBlocks("S") /\ count' = [count EXCEPT !["S"] = @ + 1]
           /\ Begin("S", at["S"].ph)
           /\ UNCHANGED <<req, served, tally, rate, dog>>
  <2>1. at["S"].ph \in SlavePhase /\ Step("S") = "down"
    BY <1>0, Facts DEF IInv, Phase, SlaveDown
  <2>2. /\ count' \in [Side -> 0..(VerifyBlocks - 1)] /\ count'["M"] = count["M"]
        /\ count'["S"] = count["S"] + 1
    BY <1>0, <1>6, Constants DEF MoreBlocks, IInv, TypeOK
  <2>3. Verifies(at["S"].ph) => /\ tally'["S"].blocks = count'["S"]
                                /\ tally'["S"].bad <= tally'["S"].blocks
    <3>1. Verifies(at["S"].ph) => at["S"].i > 4
      BY <1>0, <2>1, Facts, ScriptVerify DEF IInv, Step
    <3> QED BY <1>0, <1>2, <1>6, <2>2, <3>1 DEF IInv, TallyInv, BlocksDone
  <2>4. /\ PlaceOK(at', left') /\ ok' \in [Side -> BOOLEAN]
        /\ DoorbellsComeDown' /\ ChainInv' /\ TallyInv'
    <3>1. count'["S"] \in Nat BY <1>2, <2>2
    <3> QED BY <1>1, <1>3, <1>6, <2>1, <2>2, <2>3, <3>1, SlaveBegins
  <2>5. TypeOK'
    BY <1>1, <1>3, <1>6, <2>2, <2>4 DEF IInv, TypeOK, WireTypeOK, PlaceOK, In
  <2> QED BY <2>4, <2>5 DEF IInv
<1>7. CASE Begin("S", "put_ctrl") /\ UNCHANGED <<req, served, tally, count, rate, dog>>
  <2>1. /\ PlaceOK(at', left') /\ ok' \in [Side -> BOOLEAN]
        /\ DoorbellsComeDown' /\ ChainInv' /\ TallyInv'
    BY <1>1, <1>2, <1>3, <1>7, SlaveBegins DEF Verifies, SlavePhase
  <2>2. TypeOK'
    BY <1>1, <1>3, <1>7, <2>1 DEF IInv, TypeOK, WireTypeOK, PlaceOK, In
  <2> QED BY <2>1, <2>2 DEF IInv
<1> QED BY <1>4, <1>5, <1>6, <1>7 DEF SlaveDown

(* A slave that comes up keeps IInv.                                       *)
LEMMA BootedStep ==
  ASSUME IInv, Booted
  PROVE  IInv'
<1>0. "M" \in Side /\ "S" \in Side BY DEF Side
<1>1. ~db["S"]
  BY <1>0, Facts, RaisedLast DEF IInv, Booted, Step, Phase, DoorbellsComeDown
<1>2. count["S"] \in Nat BY <1>0, Constants DEF IInv, TypeOK
<1>3. Begin("S", "take_ctrl") /\ dog' = WatchdogUs BY DEF Booted, Serve
<1>4. /\ PlaceOK(at', left') /\ ok' \in [Side -> BOOLEAN]
      /\ DoorbellsComeDown' /\ ChainInv' /\ TallyInv'
  BY <1>1, <1>2, <1>3, SlaveBegins DEF Booted, Verifies, SlavePhase
<1>5. TypeOK'
  BY <1>3, <1>4, Constants DEF IInv, TypeOK, WireTypeOK, PlaceOK, Booted, In
<1> QED BY <1>4, <1>5 DEF IInv

(* A slave that resets at any call keeps IInv.                             *)
LEMMA ResetStep ==
  ASSUME IInv, Reset, faults' \in 0..MaxFaults
  PROVE  IInv'
<1>0. "M" \in Side /\ "S" \in Side BY DEF Side
<1>1. ~db'["S"] /\ db'["M"] = db["M"] /\ db' \in [Side -> BOOLEAN]
  BY <1>0 DEF Reset, IInv, TypeOK, WireTypeOK
<1>2. /\ tally' \in [Side -> Tally] /\ tally'["M"] = tally["M"]
      /\ count' \in [Side -> 0..(VerifyBlocks - 1)] /\ count'["M"] = count["M"]
      /\ count'["S"] = 0
      /\ rate' \in [Side -> Divider]
  BY <1>0, Constants DEF Reset, IInv, TypeOK
<1>3. rx' \in [Side -> Receiver]
  <2>1. RxOff \in Receiver
    BY FrameTypes DEF RxOff, Receiver, Kind, IInv
  <2>2. rx["M"] \in Receiver /\ rx \in [Side -> Receiver]
    BY <1>0 DEF IInv, TypeOK, WireTypeOK
  <2>3. [rx["M"] EXCEPT !.st = "partial"] \in Receiver
    BY <2>2 DEF Receiver
  <2>4. PICK r \in Receiver : rx' = [rx EXCEPT !["S"] = RxOff, !["M"] = r]
    BY <2>2, <2>3 DEF Reset
  <2> QED BY <2>1, <2>2, <2>4
<1>4. /\ PlaceOK(at', left') /\ ok' \in [Side -> BOOLEAN]
      /\ DoorbellsComeDown' /\ ChainInv' /\ TallyInv'
  BY <1>1, <1>2, SlaveBegins DEF Reset, Verifies, SlavePhase
<1>5. TypeOK'
  BY <1>1, <1>2, <1>3, <1>4, FrameTypes, Constants
  DEF IInv, TypeOK, WireTypeOK, PlaceOK, Reset, In
<1> QED BY <1>4, <1>5 DEF IInv
---------------------------------------------------------------------------
(* The clock, the callers, and the theorems.                               *)

(* Time that passes keeps IInv: it stops at the next deadline.             *)
LEMMA AdvanceStep ==
  ASSUME IInv, Advance
  PROVE  IInv'
<1>0. "M" \in Side /\ "S" \in Side BY DEF Side
<1>1. /\ left["M"] \in Nat /\ left["S"] \in Nat /\ dog \in 0..WatchdogUs
      /\ WatchdogUs \in Nat
  BY <1>0, SessionAssumption DEF IInv, TypeOK, WireTypeOK
<1>2. /\ Soonest \in Nat
      /\ Timed("S") => Soonest <= left["S"]
      /\ Timed("M") => Soonest <= left["M"]
      /\ ~In("S", {"boot"}) => Soonest <= dog
  BY <1>1 DEF Soonest, Lesser, Timed, Awake
<1>3. \A p \in Side : Timed(p) => left[p] - Soonest \in Nat
  BY <1>1, <1>2 DEF Side
<1>4. left' \in [Side -> Nat]
  BY <1>3 DEF Advance, IInv, TypeOK, WireTypeOK
<1>5. dog' \in 0..WatchdogUs
  <2>1. CASE In("S", {"boot"}) BY <1>1, <2>1 DEF Advance
  <2>2. CASE ~In("S", {"boot"}) BY <1>1, <1>2, <2>2 DEF Advance
  <2> QED BY <2>1, <2>2
<1>6. TypeOK'
  BY <1>4, <1>5 DEF IInv, TypeOK, WireTypeOK, Advance, In
<1>7. DoorbellsComeDown' /\ ChainInv' /\ TallyInv'
  <2>1. DoorbellsComeDown'
    BY DEF DoorbellsComeDown, IInv, Advance, Raised
  <2>2. ChainInv'
    BY DEF ChainInv, IInv, In, Advance
  <2>3. TallyInv'
    BY DEF TallyInv, IInv, In, BlocksDone, Advance
  <2> QED BY <2>1, <2>2, <2>3
<1> QED BY <1>6, <1>7 DEF IInv

(* A new exchange keeps IInv.                                              *)
LEMMA CallStep ==
  ASSUME IInv, NEW x \in Exchange, NEW q \in Divider, Call(x, q)
  PROVE  IInv'
<1>0. "M" \in Side /\ "S" \in Side BY DEF Side
<1>1. "send_ctrl" \in Phase("M") BY DEF Phase, MasterPhase
<1>2. /\ PlaceOK(at', left')
      /\ at'["M"] = [ph |-> "send_ctrl", i |-> 1]
      /\ \A r \in Side \ {"M"} : at'[r] = at[r]
      /\ ok' \in [Side -> BOOLEAN]
  BY <1>0, <1>1, BeginPlace DEF IInv, Call
<1>3. at'["S"] = at["S"] BY <1>0, <1>2
<1>4. /\ tally' \in [Side -> Tally] /\ tally'["M"] = NoTally /\ tally'["S"] = tally["S"]
      /\ count' \in [Side -> 0..(VerifyBlocks - 1)] /\ count'["S"] = count["S"]
  BY <1>0, Constants DEF Call, IInv, TypeOK
<1>5. x \in Op \cup {"PROBE"} BY SessionAssumption
<1>6. call' = [x |-> x, q |-> q, k |-> 1] BY DEF Call
<1>7. \A f \in Frame : Stale(f) \in Frame BY DEF Stale, Frame
<1>8. rx' \in [Side -> Receiver]
  <2>1. \A p \in Side : [rx[p] EXCEPT !.got = Stale(rx[p].got)] \in Receiver
    BY <1>7 DEF IInv, TypeOK, WireTypeOK, Receiver
  <2> QED BY <2>1 DEF Call
<1>9. answer' \in [x : Op \cup {"PROBE", "none"}, ok : BOOLEAN, fresh : BOOLEAN, sum : Tally]
  BY Constants DEF Call, NoAnswer
<1>10. TypeOK'
  BY <1>2, <1>4, <1>5, <1>6, <1>7, <1>8, <1>9
  DEF IInv, TypeOK, WireTypeOK, PlaceOK, Call, In
<1>11. DoorbellsComeDown'
  <2>1. ~db["M"]
    BY <1>0, Facts, RaisedLast DEF IInv, DoorbellsComeDown, Call
  <2> QED BY <1>2, <1>3, <2>1, RaisedFirst DEF DoorbellsComeDown, IInv, Side, Call
<1>12. ChainInv'
  BY <1>2, <1>6, ChainShape DEF ChainInv
<1>13. TallyInv'
  <2>1. BlocksDone("S")' = BlocksDone("S") BY <1>3, <1>4 DEF BlocksDone
  <2>2. \A r \in Side : Verifies(at'[r].ph) =>
          tally'[r].blocks = BlocksDone(r)' /\ tally'[r].bad <= tally'[r].blocks
    BY <1>2, <1>3, <1>4, <2>1 DEF TallyInv, IInv, Side, Verifies
  <2> QED BY <1>2, <1>4, <2>2 DEF TallyInv, In
<1> QED BY <1>10, <1>11, <1>12, <1>13 DEF IInv

(* IInv holds when both chips are switched on.                             *)
LEMMA InitIInv == ASSUME Init PROVE IInv
<1>0. "M" \in Side /\ "S" \in Side BY DEF Side
<1>1. Noise \in Frame
  BY Constants, WireAssumption DEF Noise, Block, Frame
<1>2. \A p \in Side : at[p].ph \in {"idle", "boot"} /\ at[p].i = 1
                      /\ at[p].ph \in Phase(p) /\ at[p].i \in DOMAIN Script[at[p].ph]
  BY DEF Init, Phase, MasterPhase, SlavePhase, Script, Side
<1>3. TypeOK
  <2>1. WireTypeOK
    <3>1. RxOff \in Receiver BY <1>1 DEF RxOff, Receiver, Kind
    <3>2. left \in [Side -> Nat] BY Constants DEF Init
    <3>3. faults \in 0..MaxFaults BY WireAssumption DEF Init, WireInit
    <3> QED BY <3>1, <3>2, <3>3 DEF Init, WireInit, WireTypeOK
  <2>2. at \in [Side -> [ph : MasterPhase \cup SlavePhase, i : 1..7]]
    BY DEF Init, MasterPhase, SlavePhase
  <2>3. ok \in [Side -> BOOLEAN] /\ count \in [Side -> 0..(VerifyBlocks - 1)]
        /\ tally \in [Side -> Tally] /\ rate \in [Side -> Divider]
    BY Constants DEF Init
  <2>4. call \in [x : Op \cup {"PROBE"}, q : Divider, k : 1..3]
        /\ answer \in [x : Op \cup {"PROBE", "none"}, ok : BOOLEAN, fresh : BOOLEAN, sum : Tally]
    BY Constants DEF Init, NoAnswer
  <2>5. req \in Frame /\ served \in Nat /\ dog \in 0..WatchdogUs /\ stuck \in BOOLEAN
    BY <1>1, Constants DEF Init
  <2> QED BY <1>2, <2>1, <2>2, <2>3, <2>4, <2>5 DEF TypeOK, In
<1>4. DoorbellsComeDown
  BY <1>2, RaisedFirst DEF DoorbellsComeDown, Init, WireInit
<1>5. ChainInv
  <2>1. Len(Chain(call.x)) \in 1..3 BY ChainShape
  <2>2. call.k = 1 /\ In("M", {"idle", "resync"}) BY <1>0 DEF Init, In
  <2>3. 1 \in 1..Len(Chain(call.x)) BY <2>1
  <2> QED BY <2>2, <2>3 DEF ChainInv
<1>6. TallyInv
  BY <1>0, <1>2 DEF TallyInv, Init, In, Verifies
<1> QED BY <1>3, <1>4, <1>5, <1>6 DEF IInv

(* The inductive step: whatever either side does next keeps IInv.          *)
LEMMA NextIInv == ASSUME IInv, [Next]_vars PROVE IInv'
<1>1. CASE \E x \in Exchange, q \in Divider : Call(x, q)
  BY <1>1, CallStep
<1>2. CASE Master
  BY <1>2, MasterDownStep, UnansweredStep, SettledStep, UnsettledStep,
     ResyncQuietStep, ResyncWakeStep, ResyncDoneStep DEF Master
<1>3. CASE Slave
  BY <1>3, UnrungStep, SlaveLowStep, SlaveDownStep, BootedStep DEF Slave
<1>4. CASE WatchdogBite
  BY <1>4, ResetStep DEF WatchdogBite, IInv, TypeOK, WireTypeOK
<1>5. CASE Advance
  BY <1>5, AdvanceStep
<1>6. CASE \E p \in Side : Both(p)
  BY <1>6, ArmStep, UpStep, SeenHighStep, TransmitStep, ReceivedStep, RxTimeoutStep
  DEF Both
<1>7. CASE PowerGlitch
  BY <1>7, ResetStep, WireAssumption DEF PowerGlitch, IInv, TypeOK, WireTypeOK
<1>8. CASE Hang
  <2>1. faults' \in 0..MaxFaults
    BY <1>8, WireAssumption DEF Hang, IInv, TypeOK, WireTypeOK
  <2>2. TypeOK'
    BY <1>8, <2>1 DEF Hang, IInv, TypeOK, WireTypeOK, In
  <2>3. DoorbellsComeDown'
    BY <1>8 DEF Hang, IInv, DoorbellsComeDown, Raised
  <2>4. ChainInv'
    BY <1>8 DEF Hang, IInv, ChainInv, In
  <2>5. TallyInv'
    BY <1>8 DEF Hang, IInv, TallyInv, In, BlocksDone
  <2> QED BY <2>2, <2>3, <2>4, <2>5 DEF IInv
<1>9. CASE UNCHANGED vars
  <2>1. TypeOK'
    BY <1>9 DEF vars, wireVars, sessionVars, IInv, TypeOK, WireTypeOK, In
  <2>2. DoorbellsComeDown'
    BY <1>9 DEF vars, wireVars, sessionVars, IInv, DoorbellsComeDown, Raised
  <2>3. ChainInv'
    BY <1>9 DEF vars, wireVars, sessionVars, IInv, ChainInv, In
  <2>4. TallyInv'
    BY <1>9 DEF vars, wireVars, sessionVars, IInv, TallyInv, In, BlocksDone
  <2> QED BY <2>1, <2>2, <2>3, <2>4 DEF IInv
<1> QED BY <1>1, <1>2, <1>3, <1>4, <1>5, <1>6, <1>7, <1>8, <1>9 DEF Next, Run

(* IInv holds in every reachable state of the conversation.                *)
THEOREM Invariance == Spec => []IInv
<1>1. Init => IInv BY InitIInv
<1>2. IInv /\ [Next]_vars => IInv' BY NextIInv
<1> QED BY <1>1, <1>2, PTL DEF Spec

(* Type correctness: in particular no block counter, tally or deadline of  *)
(* either chip leaves its range, whatever the timeouts are.                *)
THEOREM TypeCorrect == Spec => []TypeOK
<1>1. IInv => TypeOK BY DEF IInv
<1> QED BY <1>1, Invariance, PTL

(* No early return of link_session.c leaves a doorbell up, for any choice  *)
(* of timeouts and any number of wire faults and reboots.                  *)
THEOREM DoorbellSafety == Spec => []DoorbellsComeDown
<1>1. IInv => DoorbellsComeDown BY DEF IInv
<1> QED BY <1>1, Invariance, PTL

---------------------------------------------------------------------------
(* The half of VerifyCoversAllBlocks that no timing is needed for: a       *)
(* verified read (slave to master) that reports success compared all       *)
(* VerifyBlocks blocks, because the master's loop has no way out of the    *)
(* middle that reports success and nothing else touches its tally.         *)
ReadCoversAllBlocks ==
  answer.ok /\ answer.x = "VERIFY_S2M" => answer.sum.blocks = VerifyBlocks

(* A function of the master that ends keeps the coverage of reads.         *)
LEMMA ReturnCovers ==
  ASSUME IInv, ReadCoversAllBlocks, NEW good \in BOOLEAN, Finish(good),
         ~In("M", {"idle", "resync"})
  PROVE  ReadCoversAllBlocks'
<1>1. CASE UNCHANGED answer
  BY <1>1 DEF ReadCoversAllBlocks
<1>2. CASE Return(good) /\ (good => call.k = Len(Chain(call.x)))
  <2> SUFFICES ASSUME answer'.ok, answer'.x = "VERIFY_S2M"
               PROVE  answer'.sum.blocks = VerifyBlocks
    BY DEF ReadCoversAllBlocks
  <2>1. call.x = "VERIFY_S2M" /\ answer'.sum = tally["M"]
    BY <1>2 DEF Return
  <2>2. good
    BY <1>2 DEF Return
  <2>3. at["M"].ph = "recv_ctrl"
    BY <1>2, <2>1, <2>2, ChainShape DEF IInv, ChainInv
  <2> QED BY <2>1, <2>3 DEF IInv, TallyInv, In
<1> QED BY <1>1, <1>2, Zenon DEF Finish

(* So does every step: only Finish and Call touch the answer.              *)
LEMMA NextCovers ==
  ASSUME IInv, ReadCoversAllBlocks, [Next]_vars
  PROVE  ReadCoversAllBlocks'
<1>0. "M" \in Side BY DEF Side
<1>1. CASE \E x \in Exchange, q \in Divider : Call(x, q)
  BY <1>1 DEF Call, NoAnswer, ReadCoversAllBlocks
<1>2. CASE UNCHANGED answer
  BY <1>2 DEF ReadCoversAllBlocks
<1>3. CASE \E good \in BOOLEAN : Finish(good) /\ Step("M") \in {"hi", "lo"} /\ ~In("M", {"resync"})
  <2>1. ~In("M", {"idle", "resync"})
    BY <1>0, <1>3, Facts, ScriptIdle DEF IInv, Phase, Step, In
  <2> QED BY <1>3, <2>1, ReturnCovers
<1>4. ASSUME Master PROVE ReadCoversAllBlocks'
  <2>1. CASE Unanswered
    <3>1. ~In("M", {"resync"})
      BY <1>0, <2>1, Facts, ScriptIdle DEF IInv, Phase, Step, In, Unanswered
    <3> QED BY <1>2, <1>3, <2>1, <3>1 DEF Unanswered
  <2>2. CASE Settled
    <3>1. Result \in BOOLEAN
      BY DEF Result, IInv, TypeOK, WireTypeOK, Side, Receiver, Frame
    <3> HIDE DEF Result
    <3> QED BY <1>3, <2>2, <3>1 DEF Settled
  <2>3. CASE Unsettled
    <3> DEFINE good == /\ Result
                       /\ ~In("M", {"send_ctrl", "integrity_send", "integrity_recv"})
    <3>1. good \in BOOLEAN OBVIOUS
    <3>2. Finish(good) /\ Step("M") = "lo" /\ ~In("M", {"resync"})
      BY <2>3, Zenon DEF Unsettled
    <3> HIDE DEF good
    <3> QED BY <1>3, <3>1, <3>2
  <2>4. CASE MasterDown \/ ResyncQuiet \/ ResyncWake \/ ResyncDone
    BY <1>2, <2>4 DEF MasterDown, ResyncQuiet, ResyncWake, ResyncDone
  <2> QED BY <1>4, <2>1, <2>2, <2>3, <2>4 DEF Master
<1>5. ASSUME Slave PROVE UNCHANGED answer
  BY <1>5 DEF Slave, Unrung, SlaveLow, SlaveDown, Booted
<1>6. ASSUME WatchdogBite \/ PowerGlitch \/ Hang PROVE UNCHANGED answer
  BY <1>6 DEF WatchdogBite, PowerGlitch, Reset, Hang
<1>7. ASSUME Advance PROVE UNCHANGED answer
  BY <1>7 DEF Advance
<1>8. ASSUME NEW p \in Side, Both(p) PROVE UNCHANGED answer
  BY <1>8 DEF Both, Arm, Up, SeenHigh, Transmit, Received, RxTimeout
<1>9. ASSUME UNCHANGED vars PROVE UNCHANGED answer
  BY <1>9 DEF vars, sessionVars
<1> QED BY <1>1, <1>2, <1>4, <1>5, <1>6, <1>7, <1>8, <1>9 DEF Next, Run

(* A verified read that reports success compared every block.              *)
THEOREM ReadCoverage == Spec => []ReadCoversAllBlocks
<1>1. Init => ReadCoversAllBlocks
  BY DEF Init, NoAnswer, ReadCoversAllBlocks
<1>2. IInv /\ ReadCoversAllBlocks /\ [Next]_vars => ReadCoversAllBlocks'
  BY NextCovers
<1> QED BY <1>1, <1>2, Invariance, PTL DEF Spec

---------------------------------------------------------------------------
(* How far the conversation keeps the promise of LinkExchange without its  *)
(* timeouts: for every choice of them, of dividers, block counts and       *)
(* faults.  The invariant.                                                 *)

(* The slave's receiver holds the request of the exchange in progress.     *)
Pending == rx["S"].got.cur /\ rx["S"].got.good

(* The slave took the request once at most.                                *)
ServedOnce == served \in {0, 1}

(* Until its last word has left, nobody has the request.                   *)
Unsent == In("M", {"send_ctrl"}) /\ at["M"].i <= 3 => served = 0 /\ ~Pending

(* A slave that listens for a request armed its receiver for one, and does *)
(* not hold one that it took before.                                       *)
TakesCtrl ==
  In("S", {"take_ctrl"}) /\ at["S"].i >= 3 =>
    rx["S"].want = "ctrl" /\ (served = 1 => ~Pending)

(* A slave that serves the request in progress has taken it.               *)
Serves == In("S", {"put_ctrl"} \cup DataPhase) /\ req.cur => served = 1

(* So has the slave whose reply to it the master holds, and whose reply    *)
(* the caller was given.                                                   *)
ReplyHeld == rx["M"].got.cur /\ rx["M"].got.ack => served = 1
ReplyGiven == answer.fresh => served = 1

(* The caller has its answer exactly when its exchange has ended.          *)
AnswerGiven ==
  IF In("M", {"idle", "resync"}) THEN In("M", {"resync"}) => answer # NoAnswer
                                 ELSE answer = NoAnswer

PromiseInv ==
  ServedOnce /\ Unsent /\ TakesCtrl /\ Serves /\ ReplyHeld /\ ReplyGiven /\ AnswerGiven
---------------------------------------------------------------------------
(* Steps that send and take nothing.                                       *)

(* In what the master holds and asks for, side M moves on within its       *)
(* function; side S stays in it and does not leave its first two calls.    *)
MovesOn(p) == at'[p].ph = at[p].ph /\ at'[p].i \in Nat /\ at[p].i <= at'[p].i
StaysPut(p) ==
  /\ at'[p].ph = at[p].ph
  /\ In(p, {"take_ctrl"}) /\ at'[p].i >= 3 => at[p].i >= 3

(* Receivers keep what they hold or lose it.                               *)
Forgets ==
  /\ rx'["M"].got \in {rx["M"].got, Noise}
  /\ rx'["S"].got \in {rx["S"].got, Noise}
  /\ rx'["S"].want \in {rx["S"].want, "ctrl"}

(* Noise is no request and no reply.                                       *)
LEMMA NoiseIsNothing == ~Noise.good /\ ~Noise.ack
BY DEF Noise, Block

(* Such a step keeps the promise's invariant and is none of its steps.     *)
LEMMA QuietStep ==
  ASSUME IInv, PromiseInv, MovesOn("M"), StaysPut("S"), Forgets,
         UNCHANGED <<served, req, answer>>
  PROVE  PromiseInv' /\ UNCHANGED Promise!vars
<1>0. "M" \in Side /\ "S" \in Side BY DEF Side
<1>1. at["M"].i \in Nat /\ at["S"].i \in Nat BY <1>0, Facts DEF IInv
<1>2. Pending' => Pending BY NoiseIsNothing DEF Pending, Forgets
<1>3. ServedOnce' BY DEF PromiseInv, ServedOnce
<1>4. Unsent' BY <1>1, <1>2 DEF PromiseInv, Unsent, In, MovesOn
<1>5. TakesCtrl' BY <1>2 DEF PromiseInv, TakesCtrl, In, StaysPut, Forgets
<1>6. Serves' BY DEF PromiseInv, Serves, In, StaysPut
<1>7. ReplyHeld' BY NoiseIsNothing DEF PromiseInv, ReplyHeld, Forgets
<1>8. ReplyGiven' BY DEF PromiseInv, ReplyGiven
<1>9. AnswerGiven' BY DEF PromiseInv, AnswerGiven, In, MovesOn
<1>10. UNCHANGED Promise!vars BY DEF Promise!vars, Idle, In, MovesOn
<1> QED BY <1>3, <1>4, <1>5, <1>6, <1>7, <1>8, <1>9, <1>10 DEF PromiseInv

(* Side p goes on by n calls of its function, and the other stays.         *)
LEMMA SkipMoves ==
  ASSUME IInv, NEW p \in Side, NEW n \in 1..2, Skip(p, n),
         Step(p) # "arm", p = "S" => n = 1
  PROVE  MovesOn("M") /\ StaysPut("S")
<1>0. "M" \in Side /\ "S" \in Side BY DEF Side
<1>1. at' = [at EXCEPT ![p] = [ph |-> at[p].ph, i |-> at[p].i + n]]
  BY DEF Skip, Enter
<1>2. \A r \in Side : at[r].i \in 1..7 BY Facts DEF IInv
<1>3. at \in [Side -> [ph : MasterPhase \cup SlavePhase, i : 1..7]]
  BY DEF IInv, TypeOK
<1>4. \A r \in Side : at'[r].ph = at[r].ph /\ at'[r].i \in {at[r].i, at[r].i + n}
  BY <1>1, <1>3
<1>5. at'["S"].i # at["S"].i => p = "S"
  BY <1>0, <1>1, <1>3
<1>6. p = "S" /\ In("S", {"take_ctrl"}) => at["S"].i # 2
  BY DEF Step, In, Script
<1>7. MovesOn("M") BY <1>0, <1>2, <1>4 DEF MovesOn
<1>8. StaysPut("S")
  <2>1. at'["S"].ph = at["S"].ph BY <1>0, <1>4
  <2>2. ASSUME In("S", {"take_ctrl"}), at'["S"].i >= 3 PROVE at["S"].i >= 3
    <3>1. CASE p = "S" BY <1>0, <1>2, <1>4, <1>6, <2>2, <3>1
    <3>2. CASE p # "S" BY <1>5, <2>2, <3>2
    <3> QED BY <3>1, <3>2
  <2> QED BY <2>1, <2>2 DEF StaysPut
<1> QED BY <1>7, <1>8

(* The calls that only move on: the doorbells, the end of a receive.       *)
LEMMA PlainQuiet ==
  ASSUME IInv, PromiseInv, NEW p \in Side,
         Up(p) \/ SeenHigh(p) \/ Received(p)
  PROVE  PromiseInv' /\ UNCHANGED Promise!vars
<1>1. Skip(p, 1) /\ Step(p) # "arm" /\ UNCHANGED <<served, req, answer>>
      /\ rx' = rx
  BY DEF Up, SeenHigh, Received, NextCall
<1>2. Forgets BY <1>1 DEF Forgets
<1>3. MovesOn("M") /\ StaysPut("S") BY <1>1, SkipMoves
<1> QED BY <1>1, <1>2, <1>3, QuietStep

(* A receive that is given up: the receiver is off.                        *)
LEMMA RxTimeoutQuiet ==
  ASSUME IInv, PromiseInv, NEW p \in Side, RxTimeout(p)
  PROVE  PromiseInv' /\ UNCHANGED Promise!vars
<1> DEFINE n == IF In(p, {"bulk_recv"}) THEN 2 ELSE 1
<1>1. n \in 1..2 /\ (p = "S" => n = 1)
  BY Facts DEF In, IInv, Phase, SlavePhase, DataPhase
<1>2. Skip(p, n) /\ Step(p) # "arm" /\ UNCHANGED <<served, req, answer>>
      /\ rx' = [rx EXCEPT ![p] = RxOff]
  BY DEF RxTimeout
<1>3. Forgets
  BY <1>2 DEF Forgets, RxOff, IInv, TypeOK, WireTypeOK
<1> HIDE DEF n
<1>4. MovesOn("M") /\ StaysPut("S") BY <1>1, <1>2, SkipMoves
<1> QED BY <1>2, <1>3, <1>4, QuietStep

(* Arming a receiver: what it held is gone, and the slave that goes on to  *)
(* take a request armed for one.                                           *)
LEMMA ArmKeeps ==
  ASSUME IInv, PromiseInv, NEW p \in Side, Arm(p)
  PROVE  PromiseInv' /\ UNCHANGED Promise!vars
<1>0. "M" \in Side /\ "S" \in Side BY DEF Side
<1>1. PICK st \in {"armed", "late"} : rx' = [rx EXCEPT ![p] = RxArmed(st, KindOf(at[p].ph))]
  BY DEF Arm
<1>2. /\ \A r \in Side \ {p} : rx'[r] = rx[r]
      /\ rx'[p] = [st |-> st, want |-> KindOf(at[p].ph), got |-> Noise]
  BY <1>1 DEF RxArmed, IInv, TypeOK, WireTypeOK
<1>3. /\ at' = [at EXCEPT ![p] = [ph |-> at[p].ph, i |-> at[p].i + 1]]
      /\ UNCHANGED <<served, req, answer>>
  BY DEF Arm, NextCall, Skip, Enter
<1>4. \A r \in Side : at[r].i \in 1..7 /\ at'[r].ph = at[r].ph
        /\ at'[r].i = IF r = p THEN at[p].i + 1 ELSE at[r].i
  BY <1>3, Facts DEF IInv, TypeOK
<1>5. Pending' => Pending
  BY <1>0, <1>2, NoiseIsNothing DEF Pending
<1>6. ServedOnce' BY <1>3 DEF PromiseInv, ServedOnce
<1>7. Unsent' BY <1>0, <1>3, <1>4, <1>5 DEF PromiseInv, Unsent, In
<1>8. TakesCtrl'
  <2> SUFFICES ASSUME In("S", {"take_ctrl"})', at'["S"].i >= 3
               PROVE  rx'["S"].want = "ctrl" /\ (served' = 1 => ~Pending')
    BY DEF TakesCtrl
  <2>1. In("S", {"take_ctrl"}) BY <1>0, <1>4 DEF In
  <2>2. CASE p = "S"
    <3>1. KindOf(at[p].ph) = "ctrl" BY <2>1, <2>2 DEF KindOf, Control, In
    <3> QED BY <1>2, <2>2, <3>1, NoiseIsNothing DEF Pending
  <2>3. CASE p # "S"
    <3>1. at["S"].i >= 3 /\ rx'["S"] = rx["S"] BY <1>0, <1>2, <1>4, <2>3
    <3> QED BY <1>3, <2>1, <3>1 DEF PromiseInv, TakesCtrl, Pending
  <2> QED BY <2>2, <2>3
<1>9. Serves' BY <1>0, <1>3, <1>4 DEF PromiseInv, Serves, In
<1>10. ReplyHeld' BY <1>0, <1>2, <1>3, NoiseIsNothing DEF PromiseInv, ReplyHeld
<1>11. ReplyGiven' BY <1>3 DEF PromiseInv, ReplyGiven
<1>12. AnswerGiven' BY <1>0, <1>3, <1>4 DEF PromiseInv, AnswerGiven, In
<1>13. UNCHANGED Promise!vars BY <1>0, <1>3, <1>4 DEF Promise!vars, Idle, In
<1> QED BY <1>6, <1>7, <1>8, <1>9, <1>10, <1>11, <1>12, <1>13 DEF PromiseInv

---------------------------------------------------------------------------
(* What crosses the wire.                                                  *)

(* A transfer of frame f leaves a receiver with what it had, noise, or f,  *)
(* and with f only if it was armed for that kind of transfer.              *)
LEMMA LandedHolds ==
  ASSUME NEW r \in Receiver, NEW kind \in Kind, NEW f \in Frame, NEW fate
  PROVE  LET h == Landed(r, kind, f, fate)
         IN  /\ h.want = r.want
             /\ \/ h.got = r.got
                \/ h.got = Noise
                \/ /\ r.want = kind
                   /\ h.got.cur = f.cur /\ h.got.ack = f.ack
<1>1. [f EXCEPT !.good = f.good /\ fate = "whole"].cur = f.cur
      /\ [f EXCEPT !.good = f.good /\ fate = "whole"].ack = f.ack
  BY DEF Frame
<1> QED BY <1>1 DEF Landed, Receiver, Listening

(* Where a transmission can start.                                         *)
LEMMA ScriptTx ==
  /\ \A i \in DOMAIN Script["send_ctrl"] : Script["send_ctrl"][i] = "tx" => i = 3
  /\ \A ph \in {"recv_ctrl", "take_ctrl"} : \A i \in DOMAIN Script[ph] : Script[ph][i] # "tx"
BY DEF Script

(* The master transmits: only its request can make one pending, and then   *)
(* nobody had it.                                                          *)
LEMMA MasterTransmits ==
  ASSUME IInv, PromiseInv, Transmit("M")
  PROVE  PromiseInv' /\ UNCHANGED Promise!vars
<1>0. "M" \in Side /\ "S" \in Side BY DEF Side
<1>1. PICK fate \in Fate :
        rx' = [rx EXCEPT !["S"] = Landed(@, KindOf(at["M"].ph), Sent("M"), fate)]
  BY DEF Transmit, Peer
<1> DEFINE kind == KindOf(at["M"].ph)
           f == Sent("M")
           h == Landed(rx["S"], kind, f, fate)
<1>2. rx'["M"] = rx["M"] /\ rx'["S"] = h
  BY <1>0, <1>1 DEF IInv, TypeOK, WireTypeOK
<1>3. /\ at' = [at EXCEPT !["M"] = [ph |-> at["M"].ph, i |-> at["M"].i + 1]]
      /\ UNCHANGED <<served, req, answer>>
  BY DEF Transmit, NextCall, Skip, Enter
<1>4. /\ at'["S"] = at["S"] /\ at'["M"].ph = at["M"].ph /\ at'["M"].i = at["M"].i + 1
      /\ at["M"].i \in 1..7 /\ at["M"].ph \in MasterPhase
      /\ at["M"].i \in DOMAIN Script[at["M"].ph]
      /\ Script[at["M"].ph][at["M"].i] = "tx"
  BY <1>0, <1>3, Facts DEF IInv, TypeOK, Phase, Transmit, Step
<1>5. /\ h.want = rx["S"].want
      /\ h.got = rx["S"].got \/ h.got = Noise \/ rx["S"].want = kind
  <2>1. kind \in Kind BY DEF KindOf, Kind
  <2>2. rx["S"] \in Receiver /\ f \in Frame
    BY <1>0, FrameTypes DEF IInv, TypeOK, WireTypeOK
  <2> HIDE DEF kind, f
  <2> QED BY <2>1, <2>2, LandedHolds
<1> HIDE DEF h
<1>6. In("M", {"send_ctrl"}) => at["M"].i = 3 /\ served = 0
  BY <1>4, ScriptTx DEF PromiseInv, Unsent, In
<1>7. kind = "ctrl" => In("M", {"send_ctrl"})
  BY <1>4, ScriptTx DEF KindOf, Control, MasterPhase, In
<1> HIDE DEF kind
<1>8. ServedOnce' BY <1>3 DEF PromiseInv, ServedOnce
<1>9. Unsent' BY <1>4, <1>6 DEF Unsent, In
<1>10. TakesCtrl'
  <2> SUFFICES ASSUME In("S", {"take_ctrl"}), at["S"].i >= 3
               PROVE  rx'["S"].want = "ctrl" /\ (served = 1 => ~Pending')
    BY <1>3, <1>4 DEF TakesCtrl, In
  <2>1. rx["S"].want = "ctrl" /\ (served = 1 => ~Pending)
    BY DEF PromiseInv, TakesCtrl
  <2>2. served = 1 => h.got = rx["S"].got \/ h.got = Noise
    BY <1>5, <1>6, <1>7, <2>1
  <2> QED BY <1>2, <1>5, <2>1, <2>2, NoiseIsNothing DEF Pending
<1>11. Serves' BY <1>3, <1>4 DEF PromiseInv, Serves, In
<1>12. ReplyHeld' BY <1>2, <1>3 DEF PromiseInv, ReplyHeld
<1>13. ReplyGiven' BY <1>3 DEF PromiseInv, ReplyGiven
<1>14. AnswerGiven' BY <1>3, <1>4 DEF PromiseInv, AnswerGiven, In
<1>15. UNCHANGED Promise!vars BY <1>3, <1>4 DEF Promise!vars, Idle, In
<1> QED BY <1>8, <1>9, <1>10, <1>11, <1>12, <1>13, <1>14, <1>15 DEF PromiseInv

(* The slave transmits: the only acknowledgement of the request in         *)
(* progress comes from a slave that took it.                               *)
LEMMA SlaveTransmits ==
  ASSUME IInv, PromiseInv, Transmit("S")
  PROVE  PromiseInv' /\ UNCHANGED Promise!vars
<1>0. "M" \in Side /\ "S" \in Side BY DEF Side
<1>1. PICK fate \in Fate :
        rx' = [rx EXCEPT !["M"] = Landed(@, KindOf(at["S"].ph), Sent("S"), fate)]
  BY DEF Transmit, Peer
<1> DEFINE kind == KindOf(at["S"].ph)
           f == Sent("S")
           h == Landed(rx["M"], kind, f, fate)
<1>2. rx'["S"] = rx["S"] /\ rx'["M"] = h
  BY <1>0, <1>1 DEF IInv, TypeOK, WireTypeOK
<1>3. /\ at' = [at EXCEPT !["S"] = [ph |-> at["S"].ph, i |-> at["S"].i + 1]]
      /\ UNCHANGED <<served, req, answer>>
  BY DEF Transmit, NextCall, Skip, Enter
<1>4. /\ at'["M"] = at["M"] /\ at'["S"].ph = at["S"].ph
      /\ at["S"].ph \in SlavePhase \ {"take_ctrl"}
  BY <1>0, <1>3, Facts, ScriptTx DEF IInv, TypeOK, Phase, Transmit, Step
<1>5. h.got = rx["M"].got \/ h.got = Noise \/ (h.got.cur = f.cur /\ h.got.ack = f.ack)
  <2>1. kind \in Kind BY DEF KindOf, Kind
  <2>2. rx["M"] \in Receiver /\ f \in Frame
    BY <1>0, FrameTypes DEF IInv, TypeOK, WireTypeOK
  <2> HIDE DEF kind, f
  <2> QED BY <2>1, <2>2, LandedHolds
<1>6. f.cur /\ f.ack => served = 1
  <2>1. CASE at["S"].ph = "put_ctrl"
    <3>1. f = Reply BY <2>1 DEF Sent
    <3>2. f.cur = req.cur BY <3>1 DEF Reply
    <3> QED BY <2>1, <3>2 DEF PromiseInv, Serves, In
  <2>2. CASE at["S"].ph # "put_ctrl"
    <3>1. f = Block BY <1>4, <2>2 DEF Sent, SlavePhase, DataPhase
    <3> QED BY <3>1 DEF Block
  <2> QED BY <2>1, <2>2
<1> HIDE DEF h, f
<1>7. ServedOnce' BY <1>3 DEF PromiseInv, ServedOnce
<1>8. Unsent' BY <1>2, <1>3, <1>4 DEF PromiseInv, Unsent, In, Pending
<1>9. TakesCtrl' BY <1>4 DEF TakesCtrl, In
<1>10. Serves' BY <1>3, <1>4 DEF PromiseInv, Serves, In
<1>11. ReplyHeld'
  BY <1>2, <1>3, <1>5, <1>6, NoiseIsNothing DEF PromiseInv, ReplyHeld
<1>12. ReplyGiven' BY <1>3 DEF PromiseInv, ReplyGiven
<1>13. AnswerGiven' BY <1>3, <1>4 DEF PromiseInv, AnswerGiven, In
<1>14. UNCHANGED Promise!vars BY <1>3, <1>4 DEF Promise!vars, Idle, In
<1> QED BY <1>7, <1>8, <1>9, <1>10, <1>11, <1>12, <1>13, <1>14 DEF PromiseInv

---------------------------------------------------------------------------
(* The end of a function of the master.                                    *)

(* The caller is told how its exchange went.                               *)
Ends == answer = NoAnswer /\ ~Idle /\ answer' # NoAnswer /\ UNCHANGED served

(* What a function of the master leads to when it ends: another function   *)
(* of the exchange that sends no request, or its end.                      *)
LEMMA FinishLeads ==
  ASSUME IInv, PromiseInv, NEW good \in BOOLEAN, Finish(good),
         ~In("M", {"idle", "resync"})
  PROVE  /\ at'["S"] = at["S"] /\ at'["M"].ph # "send_ctrl" /\ answer = NoAnswer
         /\ \/ answer' = answer /\ at'["M"].ph \notin {"idle", "resync"}
            \/ /\ answer' # NoAnswer /\ at'["M"].ph \in {"idle", "resync"}
               /\ answer'.fresh => rx["M"].got.cur /\ rx["M"].got.ack
<1>0. "M" \in Side /\ "S" \in Side BY DEF Side
<1>1. answer = NoAnswer BY DEF PromiseInv, AnswerGiven
<1>2. /\ call.k \in 1..Len(Chain(call.x)) /\ Len(Chain(call.x)) \in 1..3
      /\ at["M"].ph \in MasterPhase
  BY <1>0, Facts, ChainShape DEF IInv, ChainInv, Phase
<1>3. ASSUME NEW ph, Begin("M", ph) PROVE at'["S"] = at["S"] /\ at'["M"].ph = ph
  BY <1>0, <1>3 DEF Begin, Enter, IInv, TypeOK
<1>4. CASE MoreBlocks("M") /\ Begin("M", at["M"].ph) /\ UNCHANGED answer
  <2>1. at["M"].ph # "send_ctrl" BY <1>4 DEF MoreBlocks, Verified, In
  <2> QED BY <1>1, <1>3, <1>4, <2>1 DEF In
<1>5. CASE call.k < Len(Chain(call.x)) /\ Begin("M", Chain(call.x)[call.k + 1])
           /\ UNCHANGED answer
  <2> DEFINE ph == Chain(call.x)[call.k + 1]
  <2>1. call.k + 1 \in 2..Len(Chain(call.x)) /\ call.k + 1 \in 1..Len(Chain(call.x))
    BY <1>2, <1>5
  <2>2. ph \in MasterPhase \ {"idle", "resync"} /\ ph # "send_ctrl"
    BY <2>1, ChainShape
  <2> QED BY <1>1, <1>3, <1>5, <2>2
<1>6. CASE Return(good)
  <2>1. answer'.x = call.x /\ (answer'.fresh => rx["M"].got.cur /\ rx["M"].got.ack)
    BY <1>6 DEF Return, IsReply
  <2>2. call.x # "none" BY SessionAssumption DEF IInv, TypeOK
  <2>3. answer' # NoAnswer BY <2>1, <2>2 DEF NoAnswer
  <2>4. PICK ph \in {"idle", "resync"} : Begin("M", ph)
    <3>1. AfterFailure(call.x) \subseteq {"idle", "resync"} BY DEF AfterFailure
    <3>2. \A b \in BOOLEAN : (IF b THEN {"idle"} ELSE AfterFailure(call.x))
                             \subseteq {"idle", "resync"}
      BY <3>1
    <3> QED BY <1>6, <3>1, <3>2 DEF Return
  <2>5. at'["S"] = at["S"] /\ at'["M"].ph = ph BY <1>3, <2>4
  <2> QED BY <1>1, <2>1, <2>3, <2>5
<1> QED BY <1>4, <1>5, <1>6, Zenon DEF Finish

(* So it keeps the promise's invariant, and either nothing of the promise  *)
(* happens or the exchange ends.                                           *)
LEMMA FinishPromise ==
  ASSUME IInv, PromiseInv, NEW good \in BOOLEAN, Finish(good),
         ~In("M", {"idle", "resync"}), Forgets, UNCHANGED <<served, req>>
  PROVE  PromiseInv' /\ (UNCHANGED Promise!vars \/ Ends)
<1>1. /\ at'["S"] = at["S"] /\ at'["M"].ph # "send_ctrl" /\ answer = NoAnswer
      /\ \/ answer' = answer /\ at'["M"].ph \notin {"idle", "resync"}
         \/ /\ answer' # NoAnswer /\ at'["M"].ph \in {"idle", "resync"}
            /\ answer'.fresh => rx["M"].got.cur /\ rx["M"].got.ack
  BY FinishLeads
<1>2. Pending' => Pending BY NoiseIsNothing DEF Pending, Forgets
<1>3. ServedOnce' BY DEF PromiseInv, ServedOnce
<1>4. Unsent' BY <1>1 DEF Unsent, In
<1>5. TakesCtrl' BY <1>1, <1>2 DEF PromiseInv, TakesCtrl, In, Forgets
<1>6. Serves' BY <1>1 DEF PromiseInv, Serves, In
<1>7. ReplyHeld' BY NoiseIsNothing DEF PromiseInv, ReplyHeld, Forgets
<1>8. ReplyGiven' BY <1>1 DEF PromiseInv, ReplyGiven, ReplyHeld
<1>9. AnswerGiven' BY <1>1 DEF PromiseInv, AnswerGiven, In
<1>10. UNCHANGED Promise!vars \/ Ends
  BY <1>1 DEF Promise!vars, Idle, In, Ends
<1> QED BY <1>3, <1>4, <1>5, <1>6, <1>7, <1>8, <1>9, <1>10 DEF PromiseInv

(* The master's last wait or early return.                                 *)
LEMMA MasterEnds ==
  ASSUME IInv, PromiseInv, Unanswered \/ Settled \/ Unsettled
  PROVE  PromiseInv' /\ (UNCHANGED Promise!vars \/ Ends)
<1>0. "M" \in Side /\ "S" \in Side BY DEF Side
<1>1. Step("M") \in {"hi", "lo"} /\ UNCHANGED <<served, req>>
  BY DEF Unanswered, Settled, Unsettled
<1>2. Step("M") = "hi" \/ ~In("M", {"resync"}) => ~In("M", {"idle", "resync"})
  BY <1>0, <1>1, Facts, ScriptIdle DEF IInv, Phase, Step, In
<1>3. CASE Unanswered /\ In("M", {"bulk_recv"})
  <2>1. NextCall("M") /\ UNCHANGED <<rx, answer>> /\ Step("M") = "hi"
    BY <1>3, Zenon DEF Unanswered
  <2>2. MovesOn("M") /\ StaysPut("S")
    BY <1>0, <2>1, SkipMoves DEF NextCall
  <2>3. Forgets BY <2>1 DEF Forgets
  <2> QED BY <1>1, <2>1, <2>2, <2>3, QuietStep
<1>4. CASE Unanswered /\ ~In("M", {"bulk_recv"})
  <2>1. /\ Finish(FALSE) /\ Step("M") = "hi"
        /\ rx' = [rx EXCEPT !["M"] = RxOff] \/ rx' = rx
    BY <1>4, Zenon DEF Unanswered
  <2>2. Forgets BY <1>0, <2>1 DEF Forgets, RxOff, IInv, TypeOK, WireTypeOK
  <2> QED BY <1>1, <1>2, <2>1, <2>2, FinishPromise
<1>5. CASE Settled
  <2>1. Result \in BOOLEAN
    BY DEF Result, IInv, TypeOK, WireTypeOK, Side, Receiver, Frame
  <2>2. Forgets BY <1>5 DEF Settled, Forgets
  <2> HIDE DEF Result
  <2> QED BY <1>1, <1>2, <1>5, <2>1, <2>2, FinishPromise DEF Settled
<1>6. CASE Unsettled
  <2> DEFINE good == /\ Result
                     /\ ~In("M", {"send_ctrl", "integrity_send", "integrity_recv"})
  <2>1. good \in BOOLEAN OBVIOUS
  <2>2. Finish(good) /\ ~In("M", {"resync"}) /\ rx' = rx
    BY <1>6, Zenon DEF Unsettled
  <2>3. Forgets BY <2>2 DEF Forgets
  <2> HIDE DEF good
  <2> QED BY <1>1, <1>2, <2>1, <2>2, <2>3, FinishPromise
<1> QED BY <1>3, <1>4, <1>5, <1>6

(* Its other steps.                                                        *)
LEMMA MasterQuiet ==
  ASSUME IInv, PromiseInv, MasterDown \/ ResyncQuiet \/ ResyncWake
  PROVE  PromiseInv' /\ UNCHANGED Promise!vars
<1>0. "M" \in Side /\ "S" \in Side BY DEF Side
<1>1. /\ Skip("M", 1) /\ Step("M") # "arm" /\ UNCHANGED <<served, req, answer>>
      /\ rx' = [rx EXCEPT !["M"] = RxOff] \/ rx' = rx
  BY DEF MasterDown, ResyncQuiet, ResyncWake, NextCall
<1>2. Forgets BY <1>0, <1>1 DEF Forgets, RxOff, IInv, TypeOK, WireTypeOK
<1>3. MovesOn("M") /\ StaysPut("S") BY <1>0, <1>1, SkipMoves
<1> QED BY <1>1, <1>2, <1>3, QuietStep

(* link_m_resync returns to a caller that has its answer.                  *)
LEMMA ResyncDoneQuiet ==
  ASSUME IInv, PromiseInv, ResyncDone
  PROVE  PromiseInv' /\ UNCHANGED Promise!vars
<1>0. "M" \in Side /\ "S" \in Side BY DEF Side
<1>1. /\ at'["S"] = at["S"] /\ at'["M"].ph = "idle" /\ at["M"].ph = "resync"
      /\ UNCHANGED <<rx, served, req, answer>>
  BY <1>0 DEF ResyncDone, Begin, Enter, IInv, TypeOK, In
<1>2. answer # NoAnswer BY <1>1 DEF PromiseInv, AnswerGiven, In
<1>3. ServedOnce' BY <1>1 DEF PromiseInv, ServedOnce
<1>4. Unsent' BY <1>1 DEF Unsent, In
<1>5. TakesCtrl' BY <1>1 DEF PromiseInv, TakesCtrl, In, Pending
<1>6. Serves' BY <1>1 DEF PromiseInv, Serves, In
<1>7. ReplyHeld' /\ ReplyGiven' BY <1>1 DEF PromiseInv, ReplyHeld, ReplyGiven
<1>8. AnswerGiven' BY <1>1 DEF AnswerGiven, In
<1>9. UNCHANGED Promise!vars BY <1>1, <1>2 DEF Promise!vars, Idle, In
<1> QED BY <1>3, <1>4, <1>5, <1>6, <1>7, <1>8, <1>9 DEF PromiseInv

---------------------------------------------------------------------------
(* The slave.                                                              *)

(* A slave that begins a function serves what it served, or nothing.       *)
LEMMA SlaveTurns ==
  ASSUME IInv, PromiseInv, NEW ph, Begin("S", ph), Forgets,
         ph \in {"put_ctrl"} \cup DataPhase =>
           In("S", {"put_ctrl"} \cup DataPhase) /\ UNCHANGED req,
         UNCHANGED <<served, answer>>
  PROVE  PromiseInv' /\ UNCHANGED Promise!vars
<1>0. "M" \in Side /\ "S" \in Side BY DEF Side
<1>1. at'["M"] = at["M"] /\ at'["S"] = [ph |-> ph, i |-> 1]
  BY <1>0 DEF Begin, Enter, IInv, TypeOK
<1>2. Pending' => Pending BY NoiseIsNothing DEF Pending, Forgets
<1>3. ServedOnce' BY DEF PromiseInv, ServedOnce
<1>4. Unsent' BY <1>1, <1>2 DEF PromiseInv, Unsent, In
<1>5. TakesCtrl' BY <1>1 DEF TakesCtrl
<1>6. Serves' BY <1>1 DEF PromiseInv, Serves, In
<1>7. ReplyHeld' BY NoiseIsNothing DEF PromiseInv, ReplyHeld, Forgets
<1>8. ReplyGiven' BY DEF PromiseInv, ReplyGiven
<1>9. AnswerGiven' BY <1>1 DEF PromiseInv, AnswerGiven, In
<1>10. UNCHANGED Promise!vars BY <1>1 DEF Promise!vars, Idle, In
<1> QED BY <1>3, <1>4, <1>5, <1>6, <1>7, <1>8, <1>9, <1>10 DEF PromiseInv

(* link_s_serve takes a request: the one in progress at most once.         *)
LEMMA DispatchKeeps ==
  ASSUME IInv, PromiseInv, SlaveDown, In("S", {"take_ctrl"})
  PROVE  PromiseInv' /\ (UNCHANGED Promise!vars \/ Promise!CarryOut)
<1>0. "M" \in Side /\ "S" \in Side BY DEF Side
<1>1. Dispatch /\ UNCHANGED <<rx, answer>>
  BY DEF SlaveDown, In, DataPhase
<1>2. Forgets BY <1>1 DEF Forgets
<1>3. CASE ~(ok["S"] /\ rx["S"].got.good)
  <2>1. Begin("S", "take_ctrl") /\ UNCHANGED <<req, served>>
    BY <1>1, <1>3 DEF Dispatch, Serve
  <2>2. "take_ctrl" \notin {"put_ctrl"} \cup DataPhase BY DEF DataPhase
  <2> QED BY <1>1, <1>2, <2>1, <2>2, SlaveTurns
<1>4. CASE ok["S"] /\ rx["S"].got.good
  <2> DEFINE f == rx["S"].got
  <2>1. /\ req' = f /\ served' = served + (IF f.cur THEN 1 ELSE 0)
        /\ Begin("S", IF f.op \in DataPhase THEN f.op ELSE "put_ctrl")
    BY <1>1, <1>4 DEF Dispatch
  <2>2. at'["M"] = at["M"] /\ at'["S"].ph # "take_ctrl"
    BY <1>0, <2>1 DEF Begin, Enter, IInv, TypeOK, DataPhase
  <2>3. at["S"].i >= 3
    <3>1. Script["take_ctrl"][at["S"].i] = "down" /\ at["S"].i \in DOMAIN Script["take_ctrl"]
      BY <1>0, Facts DEF SlaveDown, Step, In, IInv
    <3> QED BY <3>1 DEF Script
  <2>4. f.cur => served = 0
    BY <1>4, <2>3 DEF PromiseInv, TakesCtrl, ServedOnce, Pending
  <2>5. served \in {0, 1} /\ f.cur \in BOOLEAN
    BY <1>0 DEF PromiseInv, ServedOnce, IInv, TypeOK, WireTypeOK, Receiver, Frame
  <2>6. (f.cur => served' = 1) /\ (~f.cur => served' = served) /\ (served = 1 => served' = 1)
    BY <2>1, <2>4, <2>5
  <2> HIDE DEF f
  <2>7. ServedOnce' BY <2>5, <2>6 DEF ServedOnce
  <2>8. Unsent'
    <3> SUFFICES ASSUME In("M", {"send_ctrl"}), at["M"].i <= 3
                 PROVE  served' = 0 /\ ~Pending'
      BY <2>2 DEF Unsent, In
    <3>1. served = 0 /\ ~Pending BY DEF PromiseInv, Unsent
    <3>2. ~f.cur BY <1>4, <3>1 DEF Pending, f
    <3> QED BY <1>1, <2>6, <3>1, <3>2 DEF Pending
  <2>9. TakesCtrl' BY <2>2 DEF TakesCtrl, In
  <2>10. Serves' BY <2>1, <2>6 DEF Serves
  <2>11. ReplyHeld' /\ ReplyGiven'
    BY <1>1, <2>6 DEF PromiseInv, ReplyHeld, ReplyGiven
  <2>12. AnswerGiven' BY <1>1, <2>2 DEF PromiseInv, AnswerGiven, In
  <2>13. UNCHANGED Promise!vars \/ Promise!CarryOut
    <3>1. (answer = NoAnswer /\ ~Idle)' = (answer = NoAnswer /\ ~Idle)
      BY <1>1, <2>2 DEF Idle, In
    <3>2. CASE f.cur
      BY <1>1, <2>4, <2>6, <3>1, <3>2 DEF Promise!CarryOut
    <3>3. CASE ~f.cur
      BY <1>1, <2>6, <3>1, <3>3 DEF Promise!vars
    <3> QED BY <3>2, <3>3
  <2> QED BY <2>7, <2>8, <2>9, <2>10, <2>11, <2>12, <2>13 DEF PromiseInv
<1> QED BY <1>3, <1>4

(* The slave's other steps.                                                *)
LEMMA SlaveQuiet ==
  ASSUME IInv, PromiseInv,
         Unrung \/ SlaveLow \/ Booted \/ (SlaveDown /\ ~In("S", {"take_ctrl"}))
  PROVE  PromiseInv' /\ UNCHANGED Promise!vars
<1>0. "M" \in Side /\ "S" \in Side BY DEF Side
<1>1. UNCHANGED <<rx, served, req, answer>>
  BY DEF Unrung, SlaveLow, Booted, SlaveDown
<1>2. Forgets BY <1>1 DEF Forgets
<1>3. "take_ctrl" \notin {"put_ctrl"} \cup DataPhase BY DEF DataPhase
<1>4. CASE Skip("S", 1) /\ Step("S") # "arm"
  <2>1. MovesOn("M") /\ StaysPut("S") BY <1>0, <1>4, SkipMoves
  <2> QED BY <1>1, <1>2, <2>1, QuietStep
<1>5. CASE Begin("S", "take_ctrl")
  BY <1>1, <1>2, <1>3, <1>5, SlaveTurns
<1>6. CASE In("S", DataPhase) /\ \E ph \in {"put_ctrl", at["S"].ph} : Begin("S", ph)
  <2>1. In("S", {"put_ctrl"} \cup DataPhase) BY <1>6 DEF In
  <2> QED BY <1>1, <1>2, <1>6, <2>1, SlaveTurns
<1>7. CASE Unrung
  BY <1>4, <1>5, <1>6, <1>7 DEF Unrung, Serve, NextCall, In, DataPhase
<1>8. CASE SlaveLow BY <1>4, <1>8 DEF SlaveLow, NextCall
<1>9. CASE Booted BY <1>5, <1>9 DEF Booted, Serve
<1>10. CASE SlaveDown /\ ~In("S", {"take_ctrl"})
  BY <1>5, <1>6, <1>10 DEF SlaveDown, Serve, In
<1> QED BY <1>7, <1>8, <1>9, <1>10

(* A reset of the slave's chip.                                            *)
LEMMA ResetQuiet ==
  ASSUME IInv, PromiseInv, Reset
  PROVE  PromiseInv' /\ UNCHANGED Promise!vars
<1>0. "M" \in Side /\ "S" \in Side BY DEF Side
<1>1. Forgets
  <2>1. rx'["S"] = RxOff /\ rx'["M"].got = rx["M"].got
    BY <1>0 DEF Reset, IInv, TypeOK, WireTypeOK, Receiver
  <2> QED BY <2>1 DEF Forgets, RxOff
<1>2. "boot" \notin {"put_ctrl"} \cup DataPhase BY DEF DataPhase
<1> QED BY <1>1, <1>2, SlaveTurns DEF Reset
---------------------------------------------------------------------------
(* The caller, and the whole.                                              *)

(* A call makes every frame in existence stale.                            *)
LEMMA CallKeeps ==
  ASSUME IInv, PromiseInv, NEW x \in Exchange, NEW q \in Divider, Call(x, q)
  PROVE  PromiseInv' /\ Promise!Ask
<1>0. "M" \in Side /\ "S" \in Side BY DEF Side
<1>1. /\ at'["S"] = at["S"] /\ at'["M"] = [ph |-> "send_ctrl", i |-> 1]
      /\ at["M"].ph = "idle"
  BY <1>0 DEF Call, Begin, Enter, IInv, TypeOK
<1>2. /\ rx'["M"] = [rx["M"] EXCEPT !.got = Stale(rx["M"].got)]
      /\ rx'["S"] = [rx["S"] EXCEPT !.got = Stale(rx["S"].got)]
  BY <1>0 DEF Call
<1>3. \A f \in Frame : ~Stale(f).cur BY DEF Stale, Frame
<1>4. \A r \in Receiver : /\ [r EXCEPT !.got = Stale(r.got)].want = r.want
                         /\ ~[r EXCEPT !.got = Stale(r.got)].got.cur
  <2>1. \A r \in Receiver : r.got \in Frame BY DEF Receiver
  <2> QED BY <1>3, <2>1 DEF Receiver
<1>5. /\ ~rx'["M"].got.cur /\ ~rx'["S"].got.cur /\ rx'["S"].want = rx["S"].want
  BY <1>0, <1>2, <1>4 DEF IInv, TypeOK, WireTypeOK
<1>6. ~req'.cur BY <1>3 DEF Call, IInv, TypeOK
<1>7. served' = 0 /\ answer' = NoAnswer BY DEF Call
<1>8. ServedOnce' BY <1>7 DEF ServedOnce
<1>9. Unsent' BY <1>5, <1>7 DEF Unsent, Pending
<1>10. TakesCtrl' BY <1>1, <1>5, <1>7 DEF PromiseInv, TakesCtrl, In
<1>11. Serves' BY <1>6 DEF Serves
<1>12. ReplyHeld' BY <1>5 DEF ReplyHeld
<1>13. ReplyGiven' BY <1>7 DEF ReplyGiven, NoAnswer
<1>14. AnswerGiven' BY <1>1, <1>7 DEF AnswerGiven, In
<1>15. Promise!Ask BY <1>1, <1>7 DEF Promise!Ask, Idle, In
<1> QED BY <1>8, <1>9, <1>10, <1>11, <1>12, <1>13, <1>14, <1>15 DEF PromiseInv

(* A step of the conversation keeps the promise's invariant and is         *)
(* nothing to the promise, a call, a request carried out, or an end.       *)
LEMMA NextPromise ==
  ASSUME IInv, PromiseInv, [Next]_vars
  PROVE  /\ PromiseInv'
         /\ UNCHANGED Promise!vars \/ Promise!Ask \/ Promise!CarryOut \/ Ends
<1>0. "M" \in Side /\ "S" \in Side BY DEF Side
<1>1. ASSUME UNCHANGED <<rx, at, served, req, answer>>
      PROVE  PromiseInv' /\ UNCHANGED Promise!vars
  <2>1. \A r \in Side : at[r].i \in 1..7 BY Facts DEF IInv
  <2>2. MovesOn("M") /\ StaysPut("S") BY <1>0, <1>1, <2>1 DEF MovesOn, StaysPut
  <2>3. Forgets BY <1>1 DEF Forgets
  <2> QED BY <1>1, <2>2, <2>3, QuietStep
<1>2. CASE \E x \in Exchange, q \in Divider : Call(x, q) BY <1>2, CallKeeps
<1>3. CASE Master BY <1>3, MasterEnds, MasterQuiet, ResyncDoneQuiet DEF Master
<1>4. CASE Slave BY <1>4, DispatchKeeps, SlaveQuiet DEF Slave
<1>5. CASE \E p \in Side : Both(p)
  <2> PICK p \in Side : Both(p) BY <1>5
  <2>1. CASE Transmit(p) BY <2>1, MasterTransmits, SlaveTransmits DEF Side
  <2> QED BY <2>1, PlainQuiet, RxTimeoutQuiet, ArmKeeps DEF Both
<1>6. CASE WatchdogBite \/ PowerGlitch
  BY <1>6, ResetQuiet DEF WatchdogBite, PowerGlitch
<1>7. CASE Advance \/ Hang \/ UNCHANGED vars
  BY <1>1, <1>7 DEF Advance, Hang, vars, wireVars, sessionVars
<1> QED BY <1>2, <1>3, <1>4, <1>5, <1>6, <1>7 DEF Next, Run

(* The conversation starts with no request, no reply and no answer.        *)
LEMMA InitPromise == ASSUME Init PROVE PromiseInv /\ Promise!Init
<1>0. "M" \in Side /\ "S" \in Side BY DEF Side
<1>1. /\ at["M"] = [ph |-> "idle", i |-> 1] /\ at["S"] = [ph |-> "boot", i |-> 1]
      /\ rx["M"].got = Noise /\ rx["S"].got = Noise
      /\ served = 0 /\ answer = NoAnswer
  BY <1>0 DEF Init, WireInit, RxOff
<1>2. ServedOnce BY <1>1 DEF ServedOnce
<1>3. Unsent /\ TakesCtrl BY <1>1 DEF Unsent, TakesCtrl, In
<1>4. Serves BY <1>1 DEF Serves, In, DataPhase
<1>5. ReplyHeld BY <1>1, NoiseIsNothing DEF ReplyHeld
<1>6. ReplyGiven BY <1>1 DEF ReplyGiven, NoAnswer
<1>7. AnswerGiven BY <1>1 DEF AnswerGiven, In
<1>8. Promise!Init BY <1>1 DEF Promise!Init, Idle, In
<1> QED BY <1>2, <1>3, <1>4, <1>5, <1>6, <1>7, <1>8 DEF PromiseInv

(* PromiseInv holds in every reachable state of the conversation.          *)
THEOREM PromiseInvariance == Spec => []PromiseInv
<1>1. Init => PromiseInv BY InitPromise
<1>2. IInv /\ PromiseInv /\ [Next]_vars => PromiseInv' BY NextPromise
<1> QED BY <1>1, <1>2, Invariance, PTL DEF Spec

(* link_s_serve never takes one request twice, and a caller that is given  *)
(* the reply to its own request (one whose seq is its own) knows that the  *)
(* slave took it: whatever is lost or corrupted on the wires, however the  *)
(* two chips are timed, and whenever the slave reboots or hangs.           *)
AtMostOnce == served <= 1 /\ (answer.fresh => served = 1)

(* It holds in every reachable state of the conversation.                  *)
THEOREM TakenAtMostOnce == Spec => []AtMostOnce
<1>1. PromiseInv => AtMostOnce
  BY DEF PromiseInv, ServedOnce, ReplyGiven, AtMostOnce
<1> QED BY <1>1, PromiseInvariance, PTL

---------------------------------------------------------------------------
(* The promise.                                                            *)

(* The one exchange without a reply: a stream that arrived was asked for.  *)
StreamsAreAsked == answer.ok /\ ~HasReply(answer.x) => served = 1

(* The end of an exchange that reports success only if it was carried out  *)
(* is a step of the promise.                                               *)
LEMMA EndKeeps ==
  ASSUME PromiseInv', Ends, SuccessIsEarned', StreamsAreAsked'
  PROVE  Promise!Succeed \/ Promise!Fail
<1>1. answer'.ok => served' = 1
  BY DEF SuccessIsEarned, ReplyIsFresh, StreamsAreAsked, PromiseInv, ReplyGiven
<1>2. served' = served /\ answer' # NoAnswer /\ answer = NoAnswer /\ ~Idle
  BY DEF Ends
<1>3. CASE answer'.ok
  <2>1. served = 1 BY <1>1, <1>2, <1>3
  <2> QED BY <1>2, <1>3, <2>1 DEF Promise!Succeed
<1>4. CASE ~answer'.ok
  BY <1>2, <1>4 DEF Promise!Fail
<1> QED BY <1>3, <1>4

(* As long as the timeouts keep successes earned (which is what the run    *)
(* link_faulty checks), the whole conversation of link_session.c does what *)
(* LinkExchange promises its callers: step for step, with any number of    *)
(* faults, reboots and hangs.                                              *)
THEOREM PromiseKept ==
  Spec /\ []SuccessIsEarned /\ []StreamsAreAsked => ExchangePromise
<1>1. Init => Promise!Init BY InitPromise
<1>2. IInv /\ PromiseInv /\ PromiseInv' /\ SuccessIsEarned' /\ StreamsAreAsked'
        /\ [Next]_vars => [Promise!Next]_(Promise!vars)
  BY NextPromise, EndKeeps DEF Promise!Next
<1> QED BY <1>1, <1>2, Invariance, PromiseInvariance, PTL
        DEF Spec, ExchangePromise, Promise!Spec
=============================================================================
