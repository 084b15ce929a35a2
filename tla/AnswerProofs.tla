---------------------------- MODULE AnswerProofs ----------------------------
(***************************************************************************)
(* The components that ask and wait for an answer: FepDriver, which asks   *)
(* a modem over a serial port, and SspKv, which asks another node.         *)
(*                                                                         *)
(* FepDriver, for every set of configured registers, every wanted rate and *)
(* every fault of the link: what an answered probe says about the rate.    *)
(*                                                                         *)
(* SspKv, for every number of nodes, keys, calls and lost packets:         *)
(* GetRemote returns the value of the node and the key that were asked.    *)
(***************************************************************************)
EXTENDS FepDriver, SspKv, TLAPS

(***************************************************************************)
(*                                                                         *)
(*                                FepDriver                                *)
(*                                                                         *)
(***************************************************************************)
Lines == Values \cup {VersionLine}
Points == {"start", "probe", "resetHW", "getReg20", "setReg20", "resetNoResult",
           "configure", "setRegister", "done"}

(***************************************************************************)
(* The property alone is not inductive: an answer proves the rate only if  *)
(* no older line lies in the queue, and it stands only until the next      *)
(* search for the rate begins.                                             *)
(***************************************************************************)
USE DEF Unsolicited

NothingOld == ~Unsolicited => lines = <<>> /\ late = <<>>

Searching == pc \in {"probe", "resetHW"} => ~detected

AnsweredAtOurRate == detected /\ outcome = "none" /\ ~Unsolicited => stream = modem

\* The register that is written is a configured one.
WritesConfigured == pc = "setRegister" => try \in DOMAIN Configured

IInv == TypeOK /\ NothingOld /\ Searching /\ AnsweredAtOurRate /\ WritesConfigured

-----------------------------------------------------------------------------
(* What the operators of the model do to the lines, the modem, the port.   *)

LineTypes == busy \in BOOLEAN /\ woken \in BOOLEAN /\ lines \in Seq(Lines) /\ late \in Seq(Lines)

LEMMA ConstantTypes ==
  /\ Baud \subseteq Values /\ Values \subseteq Nat /\ Wanted \in Baud
  /\ DOMAIN Configured \subseteq Addr /\ Addr \subseteq Nat /\ Reg20 \in Addr
  /\ FactoryBaud \in Baud /\ 3 \in Baud /\ VersionLine \in Lines /\ Values \subseteq Lines
  /\ Nothing \notin Lines
BY ConfigAssumption DEF Baud, Addr, Reg20, FactoryBaud, Lines, VersionLine, Nothing

\* An answer was there, or came now; without old lines, it came now.
LEMMA AskLines ==
  ASSUME LineTypes, NothingOld, faults' = faults, NEW content \in Lines, NEW fate \in Fate,
         NEW got, Ask(content, fate, got)
  PROVE  /\ lines' \in Seq(Lines) /\ late' \in Seq(Lines) /\ got \in Lines \cup {Nothing}
         /\ NothingOld'
         /\ ~Unsolicited /\ got # Nothing => stream = modem
<1> DEFINE q == LinesWith(content, fate)
<1>1. q \in Seq(Lines) BY ConstantTypes DEF LineTypes, LinesWith
<1>2. late' \in Seq(Lines) BY DEF Ask, LineTypes
<1>3. got = (IF q = <<>> THEN Nothing ELSE Head(q)) /\ lines' = (IF q = <<>> THEN <<>> ELSE Tail(q))
  BY DEF Ask
<1>4. ~Unsolicited => late' = <<>>
  <2>1. SUFFICES ASSUME ~Unsolicited PROVE late' = <<>>
    OBVIOUS
  <2>2. fate # "late" BY <2>1 DEF Fate
  <2>3. QED BY <2>1, <2>2 DEF Ask, NothingOld
<1>5. ~Unsolicited => /\ q = <<>> \/ (Heard /\ q = <<content>>)
  BY DEF NothingOld, LinesWith, Fate
<1>6. got \in Lines \cup {Nothing} /\ lines' \in Seq(Lines)
  <2> HIDE DEF q
  <2>1. CASE q = <<>> BY <1>3, <2>1
  <2>2. CASE q # <<>> BY <1>1, <1>3, <2>2
  <2>3. QED BY <2>1, <2>2
<1>7. ~Unsolicited => lines' = <<>> /\ (got # Nothing => stream = modem)
  <2> HIDE DEF q
  <2>1. SUFFICES ASSUME ~Unsolicited PROVE lines' = <<>> /\ (got # Nothing => stream = modem)
    OBVIOUS
  <2>2. CASE q = <<>> BY <1>3, <2>2
  <2>3. CASE Heard /\ q = <<content>> BY <1>3, <2>3 DEF Heard
  <2>4. QED BY <1>5, <2>1, <2>2, <2>3
<1>8. NothingOld' BY <1>4, <1>7 DEF NothingOld
<1>9. QED BY <1>2, <1>6, <1>7, <1>8

LEMMA SameLines ==
  ASSUME LineTypes, NothingOld, faults' = faults, UNCHANGED lineVars
  PROVE  LineTypes' /\ NothingOld'
BY DEF LineTypes, NothingOld, lineVars, Lines

\* A version that is read without an error was sent at our rate.
LEMMA VersionAnswers ==
  ASSUME LineTypes, NothingOld, faults' = faults, NEW ok \in BOOLEAN, Version(ok)
  PROVE  LineTypes' /\ NothingOld' /\ (~Unsolicited /\ ok => stream = modem)
<1>1. CASE busy /\ ~ok /\ UNCHANGED lineVars
  BY <1>1, SameLines
<1>2. CASE \E fate \in Fate, got \in Values \cup {VersionLine, Nothing} :
             Ask(VersionLine, fate, got) /\ ok = (got # Nothing) /\ UNCHANGED <<busy, woken>>
  <2>1. PICK fate \in Fate, got \in Values \cup {VersionLine, Nothing} :
          Ask(VersionLine, fate, got) /\ ok = (got # Nothing) /\ UNCHANGED <<busy, woken>>
    BY <1>2
  <2>2. VersionLine \in Lines BY ConstantTypes
  <2>3. /\ lines' \in Seq(Lines) /\ late' \in Seq(Lines) /\ NothingOld'
        /\ ~Unsolicited /\ got # Nothing => stream = modem
    BY <2>1, <2>2, AskLines
  <2>4. LineTypes' BY <2>1, <2>3 DEF LineTypes, Lines
  <2>5. QED BY <2>1, <2>3, <2>4
<1>3. QED BY <1>1, <1>2 DEF Version

LEMMA GetRegisterLines ==
  ASSUME LineTypes, NothingOld, faults' = faults, NEW a \in Addr, NEW value,
         stored \in [Addr -> Values], GetRegister(a, value)
  PROVE  LineTypes' /\ NothingOld'
<1>1. CASE busy /\ value = Nothing /\ UNCHANGED lineVars
  BY <1>1, SameLines
<1>2. CASE \E fate \in Fate, got \in Values \cup {VersionLine, Nothing} :
             Ask(stored[a], fate, got) /\ busy' = (got = Nothing)
          /\ woken' = (got # Nothing /\ woken)
  <2>1. PICK fate \in Fate, got \in Values \cup {VersionLine, Nothing} :
          Ask(stored[a], fate, got) /\ busy' = (got = Nothing)
          /\ woken' = (got # Nothing /\ woken)
    BY <1>2
  <2>2. stored[a] \in Lines BY ConstantTypes
  <2>3. lines' \in Seq(Lines) /\ late' \in Seq(Lines) /\ NothingOld'
    BY <2>1, <2>2, AskLines
  <2>4. LineTypes' BY <2>1, <2>3 DEF LineTypes, Lines
  <2>5. QED BY <2>3, <2>4
<1>3. QED BY <1>1, <1>2 DEF GetRegister

StoredTypes == stored \in [Addr -> Values] /\ stored[Reg20] \in Baud

LEMMA SetRegisterTypes ==
  ASSUME StoredTypes, NEW a \in Addr, NEW value \in Values, a = Reg20 => value \in Baud,
         NEW ok, SetRegister(a, value, ok)
  PROVE  StoredTypes'
<1>1. stored' = stored \/ stored' = [stored EXCEPT ![a] = value] BY DEF SetRegister
<1>2. Reg20 \in Addr BY ConstantTypes
<1>3. QED BY <1>1, <1>2 DEF StoredTypes, Addr

LEMMA SomePoints ==
  /\ "start" \in Points /\ "probe" \in Points /\ "resetHW" \in Points
  /\ "done" \in Points
BY DEF Points

LEMMA ResetTypes ==
  ASSUME StoredTypes, modem \in Baud, NEW ok, Reset(ok)
  PROVE  modem' \in Baud
BY DEF Reset, StoredTypes

LEMMA RebaudTypes ==
  ASSUME NEW b \in Baud, deaf \in BOOLEAN, Rebaud(b)
  PROVE  stream' \in Baud /\ deaf' \in BOOLEAN
BY DEF Rebaud

ControlTypes ==
  /\ pc \in Points /\ phase \in 1..2 /\ try \in Nat
  /\ todo \subseteq DOMAIN Configured
  /\ changed \in BOOLEAN /\ detected \in BOOLEAN /\ rx_enabled \in BOOLEAN
  /\ outcome \in {"none", "ok", "error"}

ModemTypes ==
  /\ faults \in Faults /\ port \in Ports /\ deaf \in BOOLEAN
  /\ stream \in Baud /\ modem \in Baud /\ StoredTypes

LEMMA TypeParts == TypeOK <=> ControlTypes /\ ModemTypes /\ LineTypes
BY DEF TypeOK, ControlTypes, ModemTypes, LineTypes, StoredTypes, Points, Lines

LEMMA TypePartsNext == TypeOK' <=> ControlTypes' /\ ModemTypes' /\ LineTypes'
BY DEF TypeOK, ControlTypes, ModemTypes, LineTypes, StoredTypes, Points, Lines, Baud, Addr

-----------------------------------------------------------------------------
(* The steps.                                                              *)

LEMMA InitDetected == Init => IInv
<1>1. SUFFICES ASSUME Init PROVE IInv
  OBVIOUS
<1>2. ModemTypes BY <1>1, ConstantTypes DEF Init, ModemTypes, StoredTypes
<1>3. LineTypes
  <2>1. busy = FALSE /\ woken = FALSE /\ lines = <<>> /\ late = <<>> BY <1>1 DEF Init
  <2>2. <<>> \in Seq(Lines) OBVIOUS
  <2>3. QED BY <2>1, <2>2 DEF LineTypes
<1>4. ControlTypes
  <2>1. pc \in Points BY <1>1, SomePoints DEF Init
  <2>2. /\ changed \in BOOLEAN /\ detected \in BOOLEAN /\ rx_enabled \in BOOLEAN
        /\ outcome \in {"none", "ok", "error"} /\ todo \subseteq DOMAIN Configured
    BY <1>1 DEF Init
  <2>3. phase \in 1..2 /\ try \in Nat BY <1>1 DEF Init
  <2>4. QED BY <2>1, <2>2, <2>3 DEF ControlTypes
<1>5. QED
  BY <1>1, <1>2, <1>3, <1>4, TypeParts
  DEF Init, IInv, NothingOld, Searching, AnsweredAtOurRate, WritesConfigured

LEMMA NoiseTypes ==
  ASSUME LineTypes, Noise
  PROVE  lines' \in Seq(Lines) /\ busy' \in BOOLEAN
<1>1. VersionLine \in Lines BY ConstantTypes
<1>2. QED BY <1>1 DEF Noise, LineTypes

LEMMA LateLineStep ==
  ASSUME IInv, LateLine, UNCHANGED <<faults, port>>
  PROVE  IInv'
<1>1. ControlTypes /\ ModemTypes /\ LineTypes BY TypeParts DEF IInv
<1>2. UNCHANGED <<pc, phase, try, modemVars, todo, changed, detected, rx_enabled, outcome>>
  BY DEF LateLine
<1>3. ControlTypes' BY <1>1, <1>2 DEF ControlTypes
<1>4. ModemTypes' BY <1>1, <1>2 DEF ModemTypes, StoredTypes, modemVars, portVars, Baud
<1>5. LineTypes'
  <2>1. late' \in Seq(Lines) /\ Head(late) \in Lines BY <1>1 DEF LateLine, LineTypes
  <2>2. lines' \in Seq(Lines) /\ busy' \in BOOLEAN
    <3>1. CASE lines' = Append(lines, Head(late)) /\ busy' = FALSE
      <4>1. lines \in Seq(Lines) BY <1>1 DEF LineTypes
      <4>2. lines' \in Seq(Lines) BY <2>1, <3>1, <4>1
      <4>3. QED BY <3>1, <4>2
    <3>2. CASE UNCHANGED <<lines, busy>> BY <1>1, <3>2 DEF LineTypes
    <3>3. CASE Noise BY <1>1, <3>3, NoiseTypes
    <3>4. QED BY <3>1, <3>2, <3>3 DEF LateLine
  <2>3. woken' \in BOOLEAN BY DEF LateLine, Unasked
  <2>4. QED BY <2>1, <2>2, <2>3 DEF LineTypes, Lines
<1>6. NothingOld' BY DEF LateLine, IInv, NothingOld
<1>7. Searching' /\ AnsweredAtOurRate' /\ WritesConfigured'
  BY <1>2 DEF IInv, Searching, AnsweredAtOurRate, WritesConfigured, modemVars, portVars
<1>8. QED BY <1>3, <1>4, <1>5, <1>6, <1>7, TypePartsNext DEF IInv

LEMMA RadioPacketStep ==
  ASSUME IInv, RadioPacket, UNCHANGED <<faults, port>>
  PROVE  IInv'
<1>1. ControlTypes /\ ModemTypes /\ LineTypes BY TypeParts DEF IInv
<1>2. UNCHANGED <<pc, phase, try, modemVars, late, todo, changed, detected, rx_enabled,
                  outcome>>
  BY DEF RadioPacket
<1>3. ControlTypes' BY <1>1, <1>2 DEF ControlTypes
<1>4. ModemTypes' BY <1>1, <1>2 DEF ModemTypes, StoredTypes, modemVars, portVars, Baud
<1>5. LineTypes'
  <2>1. lines' \in Seq(Lines) /\ busy' \in BOOLEAN
    <3>1. CASE busy' = FALSE /\ UNCHANGED lines BY <1>1, <3>1 DEF LineTypes
    <3>2. CASE Noise BY <1>1, <3>2, NoiseTypes
    <3>3. QED BY <3>1, <3>2 DEF RadioPacket
  <2>2. woken' \in BOOLEAN BY DEF RadioPacket, Unasked
  <2>3. QED BY <1>1, <1>2, <2>1, <2>2 DEF LineTypes, Lines
<1>6. NothingOld' BY DEF RadioPacket, NothingOld
<1>7. Searching' /\ AnsweredAtOurRate' /\ WritesConfigured'
  BY <1>2 DEF IInv, Searching, AnsweredAtOurRate, WritesConfigured, modemVars, portVars
<1>8. QED BY <1>3, <1>4, <1>5, <1>6, <1>7, TypePartsNext DEF IInv

LEMMA StartStep ==
  ASSUME IInv, Start, UNCHANGED <<faults, port>>
  PROVE  IInv'
<1>1. ControlTypes /\ ModemTypes /\ LineTypes BY TypeParts DEF IInv
<1>2. ControlTypes' BY <1>1 DEF Start, ControlTypes, Points
<1>3. ModemTypes' BY <1>1 DEF Start, ModemTypes, StoredTypes, modemVars, portVars, Baud
<1>4. LineTypes' /\ NothingOld' BY <1>1, SameLines DEF Start, IInv
<1>5. Searching' /\ AnsweredAtOurRate' /\ WritesConfigured'
  BY DEF Start, Searching, AnsweredAtOurRate, WritesConfigured
<1>6. QED BY <1>2, <1>3, <1>4, <1>5, TypePartsNext DEF IInv

LEMMA CandidateIsBaud == \A n \in Nat : n >= 1 /\ n <= Len(Candidates) => Candidates[n] \in Baud
<1>1. Len(Candidates) = 4 BY DEF Candidates
<1>2. Candidates[1] = 3 /\ Candidates[2] = 0 /\ Candidates[3] = 2 /\ Candidates[4] = 1
  BY DEF Candidates
<1>3. QED BY <1>1, <1>2 DEF Baud

\* The answered probe: no line lay in the queue before, so the modem is at our rate.
LEMMA ProbeStep ==
  ASSUME IInv, Probe, UNCHANGED <<faults, port>>
  PROVE  IInv'
<1>1. ControlTypes /\ ModemTypes /\ LineTypes BY TypeParts DEF IInv
<1>2. PICK ok \in BOOLEAN :
        /\ Version(ok)
        /\ IF ok
           THEN /\ detected' = TRUE
                /\ pc' = IF phase = 1 THEN "getReg20" ELSE "configure"
                /\ UNCHANGED <<try, portVars>>
           ELSE /\ UNCHANGED detected
                /\ IF NextCandidate(try) <= Len(Candidates)
                   THEN /\ try' = NextCandidate(try)
                        /\ Rebaud(Candidates[try'])
                        /\ UNCHANGED pc
                   ELSE pc' = "resetHW" /\ UNCHANGED <<try, portVars>>
  BY DEF Probe
<1>3. /\ pc = "probe" /\ todo' = (IF pc' = "configure" THEN DOMAIN Configured ELSE todo)
      /\ UNCHANGED <<phase, modem, stored, changed, rx_enabled, outcome>>
  BY DEF Probe
<1>4. LineTypes' /\ NothingOld' /\ (~Unsolicited /\ ok => stream = modem)
  BY <1>1, <1>2, VersionAnswers DEF IInv
<1>5. CASE ok
  <2>1. ControlTypes' BY <1>1, <1>2, <1>3, <1>5 DEF ControlTypes, Points
  <2>2. ModemTypes'
    BY <1>1, <1>2, <1>3, <1>5 DEF ModemTypes, StoredTypes, portVars, Baud
  <2>3. Searching' /\ AnsweredAtOurRate' /\ WritesConfigured'
    BY <1>2, <1>3, <1>4, <1>5
    DEF Searching, AnsweredAtOurRate, WritesConfigured, portVars
  <2>4. QED BY <1>4, <2>1, <2>2, <2>3, TypePartsNext DEF IInv
<1>6. CASE ~ok
  <2>1. ~detected /\ ~detected' BY <1>1, <1>2, <1>3, <1>6 DEF IInv, Searching, ControlTypes
  <2>2. CASE NextCandidate(try) <= Len(Candidates)
    <3>1. try' = try + 1 /\ try' \in Nat /\ try' >= 1 /\ try' <= Len(Candidates)
      BY <1>1, <1>2, <1>6, <2>2 DEF NextCandidate, ControlTypes
    <3>2. pc' = pc /\ Rebaud(Candidates[try']) BY <1>2, <1>6, <2>2
    <3>3. Candidates[try'] \in Baud BY <3>1, CandidateIsBaud
    <3>4. stream' \in Baud /\ deaf' \in BOOLEAN
      BY <1>1, <3>2, <3>3, RebaudTypes DEF ModemTypes
    <3>5. ControlTypes'
      <4>1. detected' \in BOOLEAN BY <1>1, <1>2, <1>6 DEF ControlTypes
      <4>2. todo' \subseteq DOMAIN Configured BY <1>1, <1>3 DEF ControlTypes
      <4>3. QED BY <1>1, <1>3, <3>1, <3>2, <4>1, <4>2 DEF ControlTypes
    <3>6. ModemTypes' BY <1>1, <1>3, <3>4 DEF ModemTypes, StoredTypes, Baud
    <3>7. Searching' /\ AnsweredAtOurRate' /\ WritesConfigured'
      BY <1>3, <2>1, <3>2 DEF Searching, AnsweredAtOurRate, WritesConfigured
    <3>8. QED BY <1>4, <3>5, <3>6, <3>7, TypePartsNext DEF IInv
  <2>3. CASE ~(NextCandidate(try) <= Len(Candidates))
    <3>1. pc' = "resetHW" /\ UNCHANGED <<try, portVars>> BY <1>2, <1>6, <2>3
    <3>2. ControlTypes'
      <4>1. detected' \in BOOLEAN BY <1>1, <1>2, <1>6 DEF ControlTypes
      <4>2. todo' \subseteq DOMAIN Configured BY <1>1, <1>3 DEF ControlTypes
      <4>3. QED BY <1>1, <1>3, <3>1, <4>1, <4>2, SomePoints DEF ControlTypes
    <3>3. ModemTypes' BY <1>1, <1>3, <3>1 DEF ModemTypes, StoredTypes, portVars, Baud
    <3>4. Searching' /\ AnsweredAtOurRate' /\ WritesConfigured'
      BY <2>1, <3>1 DEF Searching, AnsweredAtOurRate, WritesConfigured
    <3>5. QED BY <1>4, <3>2, <3>3, <3>4, TypePartsNext DEF IInv
  <2>4. QED BY <2>2, <2>3
<1>7. QED BY <1>5, <1>6

LEMMA ResetRegistersHWStep ==
  ASSUME IInv, ResetRegistersHW, UNCHANGED <<faults, port>>
  PROVE  IInv'
<1>1. ControlTypes /\ ModemTypes /\ LineTypes BY TypeParts DEF IInv
<1>2. ControlTypes' BY <1>1 DEF ResetRegistersHW, ControlTypes, Points
<1>3. ModemTypes'
  <2>1. PICK v \in Values : stored' = [a \in Addr |-> IF a = Reg20 THEN FactoryBaud ELSE v]
    BY DEF ResetRegistersHW
  <2>2. StoredTypes' BY <2>1, ConstantTypes DEF StoredTypes, Baud, Addr
  <2>3. Candidates[1] \in Baud BY DEF Candidates, Baud
  <2>4. stream' \in Baud /\ deaf' \in BOOLEAN
    BY <1>1, <2>3, RebaudTypes DEF ResetRegistersHW, ModemTypes
  <2>5. QED BY <1>1, <2>2, <2>4, ConstantTypes DEF ResetRegistersHW, ModemTypes, Baud
<1>4. LineTypes' /\ NothingOld' BY <1>1, SameLines DEF ResetRegistersHW, IInv
<1>5. ~detected /\ detected' = detected BY DEF ResetRegistersHW, IInv, Searching
<1>6. Searching' /\ AnsweredAtOurRate' /\ WritesConfigured'
  BY <1>5 DEF ResetRegistersHW, Searching, AnsweredAtOurRate, WritesConfigured
<1>7. QED BY <1>2, <1>3, <1>4, <1>6, TypePartsNext DEF IInv

\* The search begins anew, and what was detected counts no more.
LEMMA AdjustAgainStep ==
  ASSUME AdjustAgain
  PROVE  /\ pc' \in Points /\ phase' \in 1..2 /\ try' \in Nat /\ detected' \in BOOLEAN
         /\ Searching' /\ AnsweredAtOurRate' /\ WritesConfigured'
<1>1. pc' \in Points /\ detected' = FALSE /\ pc' = "probe" BY SomePoints DEF AdjustAgain
<1>2. phase' \in 1..2 /\ try' \in Nat BY DEF AdjustAgain
<1>3. Searching' /\ AnsweredAtOurRate' /\ WritesConfigured'
  BY <1>1 DEF Searching, AnsweredAtOurRate, WritesConfigured
<1>4. QED BY <1>1, <1>2, <1>3

LEMMA GetReg20Step ==
  ASSUME IInv, GetReg20, UNCHANGED <<faults, port>>
  PROVE  IInv'
<1>1. ControlTypes /\ ModemTypes /\ LineTypes BY TypeParts DEF IInv
<1>2. UNCHANGED <<modemVars, todo, changed, rx_enabled, outcome>> /\ pc = "getReg20"
  BY DEF GetReg20
<1>3. LineTypes' /\ NothingOld'
  <2>1. PICK v \in Values \cup {Nothing} : GetRegister(Reg20, v) BY DEF GetReg20
  <2>2. stored \in [Addr -> Values] /\ Reg20 \in Addr
    BY <1>1, ConstantTypes DEF ModemTypes, StoredTypes
  <2>3. QED BY <1>1, <2>1, <2>2, GetRegisterLines DEF IInv
<1>4. ModemTypes' BY <1>1, <1>2 DEF ModemTypes, StoredTypes, modemVars, portVars, Baud
<1>5. CASE AdjustAgain
  BY <1>1, <1>2, <1>3, <1>4, <1>5, AdjustAgainStep, TypePartsNext DEF IInv, ControlTypes
<1>6. CASE pc' = "setReg20" /\ UNCHANGED <<phase, try, detected>>
  <2>1. ControlTypes' BY <1>1, <1>2, <1>6 DEF ControlTypes, Points
  <2>2. Searching' /\ AnsweredAtOurRate' /\ WritesConfigured'
    BY <1>2, <1>6
    DEF IInv, Searching, AnsweredAtOurRate, WritesConfigured, modemVars, portVars
  <2>3. QED BY <1>3, <1>4, <2>1, <2>2, TypePartsNext DEF IInv
<1>7. QED BY <1>5, <1>6 DEF GetReg20

LEMMA SetReg20Step ==
  ASSUME IInv, SetReg20, UNCHANGED <<faults, port>>
  PROVE  IInv'
<1>1. ControlTypes /\ ModemTypes /\ LineTypes BY TypeParts DEF IInv
<1>2. /\ UNCHANGED <<portVars, modem, lineVars, todo, changed, rx_enabled, outcome>>
      /\ pc = "setReg20"
  BY DEF SetReg20
<1>3. LineTypes' /\ NothingOld' BY <1>1, <1>2, SameLines DEF IInv
<1>4. ModemTypes'
  <2>1. PICK ok \in BOOLEAN : SetRegister(Reg20, Wanted, ok) BY DEF SetReg20
  <2>2. StoredTypes' BY <1>1, <2>1, SetRegisterTypes, ConstantTypes DEF ModemTypes
  <2>3. QED BY <1>1, <1>2, <2>2 DEF ModemTypes, portVars, Baud
<1>5. CASE AdjustAgain
  BY <1>1, <1>2, <1>3, <1>4, <1>5, AdjustAgainStep, TypePartsNext DEF IInv, ControlTypes
<1>6. CASE pc' = "resetNoResult" /\ UNCHANGED <<phase, try, detected>>
  <2>1. ControlTypes' BY <1>1, <1>2, <1>6 DEF ControlTypes, Points
  <2>2. Searching' /\ AnsweredAtOurRate' /\ WritesConfigured'
    BY <1>2, <1>6 DEF IInv, Searching, AnsweredAtOurRate, WritesConfigured, portVars
  <2>3. QED BY <1>3, <1>4, <2>1, <2>2, TypePartsNext DEF IInv
<1>7. QED BY <1>5, <1>6 DEF SetReg20

LEMMA ResetNoResultStep ==
  ASSUME IInv, ResetNoResult, UNCHANGED <<faults, port>>
  PROVE  IInv'
<1>1. ControlTypes /\ ModemTypes /\ LineTypes BY TypeParts DEF IInv
<1>2. UNCHANGED <<stored, busy, late, woken, todo, changed, rx_enabled, outcome>> /\ AdjustAgain
  BY DEF ResetNoResult
<1>3. LineTypes' BY <1>1 DEF ResetNoResult, LineTypes, Lines
<1>4. NothingOld' BY DEF ResetNoResult, IInv, NothingOld
<1>5. ModemTypes'
  <2>1. modem' \in Baud BY <1>1, ResetTypes DEF ResetNoResult, ModemTypes
  <2>2. stream' \in Baud /\ deaf' \in BOOLEAN
    BY <1>1, RebaudTypes, ConstantTypes DEF ResetNoResult, ModemTypes
  <2>3. StoredTypes' BY <1>1, <1>2 DEF ModemTypes, StoredTypes, Baud, Addr
  <2>4. QED BY <1>1, <2>1, <2>2, <2>3 DEF ModemTypes, Baud
<1>6. QED
  BY <1>1, <1>2, <1>3, <1>4, <1>5, AdjustAgainStep, TypePartsNext DEF IInv, ControlTypes

\* After the second search the rate stays as it is until Init returns.
LEMMA CheckRegisterStep ==
  ASSUME IInv, CheckRegister, UNCHANGED <<faults, port>>
  PROVE  IInv'
<1>1. ControlTypes /\ ModemTypes /\ LineTypes BY TypeParts DEF IInv
<1>2. UNCHANGED <<phase, modemVars, changed, detected, rx_enabled>> /\ pc = "configure"
  BY DEF CheckRegister
<1>3. PICK a \in todo, v \in Values \cup {Nothing} :
        /\ GetRegister(a, v)
        /\ \/ /\ v = Nothing
              /\ Finish("error")
              /\ UNCHANGED <<todo, try>>
           \/ /\ v = Configured[a]
              /\ todo' = todo \ {a}
              /\ UNCHANGED <<pc, outcome, try>>
           \/ /\ v \notin {Nothing, Configured[a]}
              /\ pc' = "setRegister"
              /\ try' = a
              /\ UNCHANGED <<todo, outcome>>
  BY DEF CheckRegister
<1>4. a \in DOMAIN Configured /\ a \in Addr /\ a \in Nat
  BY <1>1, ConstantTypes DEF ControlTypes
<1>5. LineTypes' /\ NothingOld'
  BY <1>1, <1>3, <1>4, GetRegisterLines DEF IInv, ModemTypes, StoredTypes
<1>6. ModemTypes' BY <1>1, <1>2 DEF ModemTypes, StoredTypes, modemVars, portVars, Baud
<1>7. ControlTypes'
  BY <1>1, <1>2, <1>3, <1>4 DEF ControlTypes, Points, Finish
<1>8. Searching' /\ WritesConfigured'
  BY <1>2, <1>3, <1>4 DEF Searching, WritesConfigured, Finish
<1>9. AnsweredAtOurRate'
  BY <1>2, <1>3 DEF IInv, AnsweredAtOurRate, Finish, modemVars, portVars
<1>10. QED BY <1>5, <1>6, <1>7, <1>8, <1>9, TypePartsNext DEF IInv

LEMMA SetConfiguredStep ==
  ASSUME IInv, SetConfigured, UNCHANGED <<faults, port>>
  PROVE  IInv'
<1>1. ControlTypes /\ ModemTypes /\ LineTypes BY TypeParts DEF IInv
<1>2. /\ UNCHANGED <<phase, try, portVars, modem, lineVars, detected, rx_enabled>>
      /\ pc = "setRegister" /\ changed' = TRUE /\ todo' = todo \ {try}
  BY DEF SetConfigured
<1>3. PICK ok \in BOOLEAN :
        /\ SetRegister(try, Configured[try], ok)
        /\ IF ok THEN pc' = "configure" /\ UNCHANGED outcome ELSE Finish("error")
  BY DEF SetConfigured
<1>4. /\ try \in Addr /\ Configured[try] \in Values
      /\ try = Reg20 => Configured[try] \in Baud
  BY <1>2, ConfigAssumption, ConstantTypes DEF IInv, WritesConfigured
<1>5. LineTypes' /\ NothingOld' BY <1>1, <1>2, SameLines DEF IInv
<1>6. StoredTypes' BY <1>1, <1>3, <1>4, SetRegisterTypes DEF ModemTypes
<1>7. ModemTypes' BY <1>1, <1>2, <1>6 DEF ModemTypes, portVars, Baud
<1>8. ControlTypes' BY <1>1, <1>2, <1>3 DEF ControlTypes, Points, Finish
<1>9. Searching' /\ WritesConfigured' BY <1>3 DEF Searching, WritesConfigured, Finish
<1>10. AnsweredAtOurRate'
  BY <1>2, <1>3 DEF IInv, AnsweredAtOurRate, Finish, portVars
<1>11. QED BY <1>5, <1>7, <1>8, <1>9, <1>10, TypePartsNext DEF IInv

LEMMA ConfigureStep ==
  ASSUME IInv, Configure, UNCHANGED <<faults, port>>
  PROVE  IInv'
<1>1. ControlTypes /\ ModemTypes /\ LineTypes BY TypeParts DEF IInv
<1>2. UNCHANGED <<phase, try, portVars, stored, lineVars, todo, changed, detected>>
  BY DEF Configure
<1>3. PICK ok \in BOOLEAN :
        /\ IF changed THEN Reset(ok) ELSE ok /\ UNCHANGED modem
        /\ rx_enabled' = ok
        /\ Finish(IF ok THEN "ok" ELSE "error")
  BY DEF Configure
<1>4. modem' \in Baud BY <1>1, <1>3, ResetTypes DEF ModemTypes
<1>5. ModemTypes' BY <1>1, <1>2, <1>4 DEF ModemTypes, StoredTypes, portVars, Baud
<1>6. LineTypes' /\ NothingOld' BY <1>1, <1>2, SameLines DEF IInv
<1>7. ControlTypes' BY <1>1, <1>2, <1>3 DEF ControlTypes, Points, Finish
<1>8. Searching' /\ AnsweredAtOurRate' /\ WritesConfigured'
  BY <1>3 DEF Searching, AnsweredAtOurRate, WritesConfigured, Finish
<1>9. QED BY <1>5, <1>6, <1>7, <1>8, TypePartsNext DEF IInv

LEMMA StutterStep ==
  ASSUME IInv, UNCHANGED vars
  PROVE  IInv'
<1>1. ControlTypes /\ ModemTypes /\ LineTypes BY TypeParts DEF IInv
<1>2. ControlTypes' /\ ModemTypes'
  BY <1>1 DEF vars, ControlTypes, ModemTypes, StoredTypes, modemVars, portVars, Baud
<1>3. LineTypes' /\ NothingOld' BY <1>1, SameLines DEF vars, IInv
<1>4. Searching' /\ AnsweredAtOurRate' /\ WritesConfigured'
  BY DEF vars, IInv, Searching, AnsweredAtOurRate, WritesConfigured, modemVars, portVars
<1>5. QED BY <1>2, <1>3, <1>4, TypePartsNext DEF IInv

LEMMA StepDetected == IInv /\ [Next]_vars => IInv'
<1>1. SUFFICES ASSUME IInv, [Next]_vars PROVE IInv'
  OBVIOUS
<1>2. CASE Step /\ UNCHANGED <<faults, port>>
  BY <1>1, <1>2, StartStep, ProbeStep, ResetRegistersHWStep, GetReg20Step, SetReg20Step,
     ResetNoResultStep, CheckRegisterStep, SetConfiguredStep, ConfigureStep DEF Step
<1>3. CASE LateLine /\ UNCHANGED <<faults, port>> BY <1>1, <1>3, LateLineStep
<1>4. CASE UNCHANGED vars BY <1>1, <1>4, StutterStep
<1>5. CASE RadioPacket /\ UNCHANGED <<faults, port>> BY <1>1, <1>5, RadioPacketStep
<1>6. QED BY <1>1, <1>2, <1>3, <1>4, <1>5 DEF Next

(***************************************************************************)
(* Whatever registers are configured, over either port and with any faults *)
(* but late answers and noise, a rate that Init takes for detected is the  *)
(* modem's until Init returns; and every variable keeps its type.          *)
(***************************************************************************)
THEOREM DetectedRight == Spec => []DetectedIsRight
<1>1. IInv => DetectedIsRight
  BY DEF IInv, AnsweredAtOurRate, DetectedIsRight
<1>2. QED BY InitDetected, StepDetected, <1>1, PTL DEF Spec

(***************************************************************************)
(*                                                                         *)
(*                                  SspKv                                  *)
(*                                                                         *)
(***************************************************************************)
Keys == Ids \cup {0} \cup UNION {DOMAIN kv_callbacks_[n] : n \in Nodes}
Bytes == {None} \cup {Value(n, id) : n \in Nodes, id \in Keys}
Lengths == Nat \ {0}
Packets == [from : Nodes, id : Keys, value : Bytes, len : Lengths]
Entries == [len : Lengths, own : BOOLEAN]
Buffers == [id : Keys, value : Bytes]
Busy == [step : {"answer"}, to : Nodes, len : Lengths \ {1}]
Receivers == Busy \cup {Idle}
Asking == [step : {"named", "wait"}, to : Nodes, id : Ids]
Returning == [step : {"back"}, to : Nodes, id : Ids, res : Entries]
Apps == {Idle} \cup Asking \cup Returning

KvTypes ==
  /\ air \in [Nodes -> Seq(Packets)]
  /\ packet \in [Nodes -> Packets \cup {None}]
  /\ rx_buffer \in [Nodes -> Seq(Entries)]
  /\ tx_buffer \in [Nodes -> Buffers]
  /\ receiver \in [Nodes -> Receivers]
  /\ app \in [Nodes -> Apps]
  /\ DOMAIN answer = Nodes

(***************************************************************************)
(* Sequences, as they are used below.                                      *)
(***************************************************************************)
LEMMA Appended ==
  ASSUME NEW S, NEW q \in Seq(S), NEW e \in S
  PROVE  /\ Append(q, e) \in Seq(S)
         /\ DOMAIN q = 1..Len(q) /\ Len(q) \in Nat
         /\ DOMAIN Append(q, e) = 1..Len(q) + 1
         /\ Append(q, e)[Len(q) + 1] = e
         /\ \A i \in 1..Len(q) : Append(q, e)[i] = q[i]
OBVIOUS

LEMMA Rest ==
  ASSUME NEW S, NEW q \in Seq(S), q # <<>>
  PROVE  /\ Head(q) \in S /\ Tail(q) \in Seq(S) /\ Head(q) = q[1]
         /\ DOMAIN q = 1..Len(q) /\ Len(q) \in Nat /\ 1 \in DOMAIN q
         /\ DOMAIN Tail(q) = 1..Len(q) - 1
         /\ \A i \in DOMAIN Tail(q) : i + 1 \in DOMAIN q /\ i + 1 # 1 /\ Tail(q)[i] = q[i + 1]
<1>1. /\ Head(q) \in S /\ Tail(q) \in Seq(S) /\ Head(q) = q[1]
      /\ DOMAIN q = 1..Len(q) /\ Len(q) \in Nat /\ Len(q) # 0
      /\ DOMAIN Tail(q) = 1..Len(q) - 1
      /\ \A i \in 1..Len(q) - 1 : Tail(q)[i] = q[i + 1]
  OBVIOUS
<1>2. 1 \in DOMAIN q
  BY <1>1
<1>3. \A i \in 1..Len(q) - 1 : i + 1 \in DOMAIN q /\ i + 1 # 1
  BY <1>1
<1> QED BY <1>1, <1>2, <1>3

\* The only one is the first.
LEMMA Alone ==
  ASSUME NEW S, NEW q \in Seq(S), Len(q) = 1
  PROVE  q # <<>> /\ Head(q) = q[1] /\ Tail(q) = <<>>
<1>1. q # <<>>
  OBVIOUS
<1>2. Tail(q) \in Seq(S) /\ Len(Tail(q)) = 0
  BY <1>1
<1>3. \A t \in Seq(S) : Len(t) = 0 => t = <<>>
  OBVIOUS
<1>4. Head(q) = q[1]
  BY <1>1
<1> QED BY <1>1, <1>2, <1>3, <1>4

LEMMA First ==
  ASSUME NEW S, NEW e \in S
  PROVE  Append(<<>>, e) \in Seq(S) /\ Len(Append(<<>>, e)) = 1 /\ Append(<<>>, e)[1] = e
OBVIOUS

-----------------------------------------------------------------------------
(***************************************************************************)
(* Types.                                                                  *)
(***************************************************************************)
LEMMA AppKinds ==
  ASSUME NEW c \in Apps
  PROVE  /\ c.step \in {"idle", "named", "wait", "back"}
         /\ c.step \in {"named", "wait"} => c \in Asking
         /\ c.step = "back" => c \in Returning
         /\ c = Idle <=> c.step = "idle"
BY DEF Apps, Asking, Returning, Idle

LEMMA ReceiverKinds ==
  ASSUME NEW r \in Receivers, r # Idle
  PROVE  r \in Busy
BY DEF Receivers

\* Keys that are asked for or known, and the values of the latter.
LEMMA Known ==
  ASSUME NEW n \in Nodes, NEW id \in DOMAIN kv_callbacks_[n]
  PROVE  /\ id \in Keys /\ Value(n, id) \in Bytes
         /\ kv_callbacks_[n][id] \in Lengths /\ kv_callbacks_[n][id] + 1 \in Lengths \ {1}
<1>1. id \in Keys
  BY DEF Keys
<1>2. Value(n, id) \in Bytes
  BY <1>1 DEF Bytes
<1>3. kv_callbacks_[n][id] \in Nat \ {0}
  BY KvAssumption
<1>4. kv_callbacks_[n][id] + 1 \in Nat \ {0, 1}
  BY <1>3
<1> QED BY <1>1, <1>2, <1>3, <1>4 DEF Lengths

LEMMA AskedKeys == Ids \subseteq Keys /\ 0 \in Keys
BY DEF Keys

LEMMA PutTypes ==
  ASSUME air \in [Nodes -> Seq(Packets)], NEW to \in Nodes, NEW p \in Packets, Put(to, p)
  PROVE  air' \in [Nodes -> Seq(Packets)]
<1>1. Append(air[to], p) \in Seq(Packets)
  BY Appended
<1> QED BY <1>1 DEF Put

LEMMA PushedTypes ==
  ASSUME NEW q \in Seq(Entries), NEW e \in Entries
  PROVE  Pushed(q, e) \in Seq(Entries)
BY Appended DEF Pushed

LEMMA GetRemoteTypes ==
  ASSUME KvTypes, NEW n \in Nodes, GetRemote(n)
  PROVE  KvTypes'
<1>1. PICK to \in Nodes \ {n}, id \in Ids :
        /\ app' = [app EXCEPT ![n] = [step |-> "named", to |-> to, id |-> id]]
        /\ tx_buffer' = [tx_buffer EXCEPT ![n].id = id]
  BY DEF GetRemote
<1>2. [step |-> "named", to |-> to, id |-> id] \in Apps
  BY DEF Apps, Asking
<1>3. app' \in [Nodes -> Apps]
  BY <1>1, <1>2 DEF KvTypes
<1>4. tx_buffer' \in [Nodes -> Buffers]
  BY <1>1, AskedKeys DEF KvTypes, Buffers
<1> QED BY <1>3, <1>4 DEF GetRemote, KvTypes

\* What Request sends, and what becomes of its caller.
Asked(n) == [from |-> n, id |-> tx_buffer[n].id, value |-> None, len |-> 1]

LEMMA AskedTypes ==
  ASSUME KvTypes, NEW n \in Nodes, app[n].step = "named"
  PROVE  /\ Asked(n) \in Packets /\ app[n].to \in Nodes
         /\ [app[n] EXCEPT !.step = "wait"] \in Asking
         /\ [app[n] EXCEPT !.step = "wait"].step = "wait"
         /\ [app[n] EXCEPT !.step = "wait"].to = app[n].to
<1>1. app[n] \in Asking
  BY AppKinds DEF KvTypes
<1>2. tx_buffer[n].id \in Keys
  BY DEF KvTypes, Buffers
<1>3. None \in Bytes /\ 1 \in Lengths
  BY DEF Bytes, Lengths
<1>4. Asked(n) \in Packets
  BY <1>2, <1>3 DEF Asked, Packets
<1> QED BY <1>1, <1>4 DEF Asking

LEMMA RequestTypes ==
  ASSUME KvTypes, NEW n \in Nodes, Request(n)
  PROVE  KvTypes'
<1>1. air' \in [Nodes -> Seq(Packets)]
  BY AskedTypes, PutTypes DEF Request, Asked, KvTypes
<1>2. app' = [app EXCEPT ![n] = [app[n] EXCEPT !.step = "wait"]]
  BY DEF Request
<1>3. app' \in [Nodes -> Apps]
  <2>1. [app[n] EXCEPT !.step = "wait"] \in Apps
    BY AskedTypes DEF Request, Apps
  <2> QED BY <1>2, <2>1 DEF KvTypes
<1> QED BY <1>1, <1>3 DEF Request, KvTypes

LEMMA TailTypes ==
  ASSUME KvTypes, NEW n \in Nodes, rx_buffer[n] # <<>>,
         rx_buffer' = [rx_buffer EXCEPT ![n] = Tail(@)]
  PROVE  /\ Head(rx_buffer[n]) \in Entries
         /\ rx_buffer' \in [Nodes -> Seq(Entries)]
<1>1. rx_buffer[n] \in Seq(Entries)
  BY DEF KvTypes
<1>2. Head(rx_buffer[n]) \in Entries /\ Tail(rx_buffer[n]) \in Seq(Entries)
  BY <1>1, Rest
<1> QED BY <1>2 DEF KvTypes

LEMMA TakeAnswerTypes ==
  ASSUME KvTypes, NEW n \in Nodes, TakeAnswer(n)
  PROVE  KvTypes'
<1>1. rx_buffer' \in [Nodes -> Seq(Entries)]
  BY TailTypes DEF TakeAnswer
<1>2. app' \in [Nodes -> Apps]
  BY DEF TakeAnswer, KvTypes, Apps
<1> QED BY <1>1, <1>2 DEF TakeAnswer, KvTypes

\* An answer to something else is held, and the call goes on.
Held(c, res) == [step |-> "back", to |-> c.to, id |-> c.id, res |-> res]

LEMMA TakeOtherTypes ==
  ASSUME KvTypes, NEW n \in Nodes, TakeOther(n)
  PROVE  KvTypes'
<1>1. rx_buffer' \in [Nodes -> Seq(Entries)] /\ Head(rx_buffer[n]) \in Entries
  BY TailTypes DEF TakeOther
<1>2. app[n] \in Asking
  BY AppKinds DEF KvTypes, TakeOther
<1>3. Held(app[n], Head(rx_buffer[n])) \in Apps
  BY <1>1, <1>2 DEF Held, Apps, Asking, Returning
<1>4. app' = [app EXCEPT ![n] = Held(app[n], Head(rx_buffer[n]))]
  BY DEF TakeOther, Held
<1>5. app' \in [Nodes -> Apps]
  BY <1>3, <1>4 DEF KvTypes
<1> QED BY <1>1, <1>5 DEF TakeOther, KvTypes

LEMMA PutBackTypes ==
  ASSUME KvTypes, NEW n \in Nodes, PutBack(n)
  PROVE  KvTypes'
<1>1. app[n] \in Returning
  BY AppKinds DEF KvTypes, PutBack
<1>2. app[n].res \in Entries /\ rx_buffer[n] \in Seq(Entries)
  BY <1>1 DEF Returning, KvTypes
<1>3. rx_buffer' \in [Nodes -> Seq(Entries)]
  BY <1>2, PushedTypes DEF PutBack, KvTypes
<1>4. [step |-> "wait", to |-> app[n].to, id |-> app[n].id] \in Apps
  BY <1>1 DEF Apps, Asking, Returning
<1>5. app' \in [Nodes -> Apps]
  BY <1>4 DEF PutBack, KvTypes
<1> QED BY <1>3, <1>5 DEF PutBack, KvTypes

(***************************************************************************)
(* What a packet does where it arrives: all that waits there grows old.    *)
(***************************************************************************)
Aged(q) == [i \in DOMAIN q |-> Gone(q[i])]

AgedCall(c) == IF c.step = "back" THEN [c EXCEPT !.res = Gone(@)] ELSE c

Queued(q, p) == IF p.len > 1 THEN Pushed(Aged(q), [len |-> p.len, own |-> TRUE]) ELSE Aged(q)

LEMMA GoneTypes ==
  ASSUME NEW e \in Entries
  PROVE  Gone(e) \in Entries /\ Gone(e).own = FALSE
BY DEF Gone, Entries

LEMMA AgedTypes ==
  ASSUME NEW q \in Seq(Entries)
  PROVE  /\ Aged(q) \in Seq(Entries) /\ Len(Aged(q)) = Len(q)
         /\ \A i \in 1..Len(q) : Aged(q)[i].own = FALSE
         /\ q = <<>> => Aged(q) = <<>>
<1>1. /\ DOMAIN q = 1..Len(q) /\ Len(q) \in Nat
      /\ \A i \in 1..Len(q) : q[i] \in Entries
  OBVIOUS
<1>2. \A i \in 1..Len(q) : Gone(q[i]) \in Entries /\ Gone(q[i]).own = FALSE
  BY <1>1, GoneTypes
<1>3. Aged(q) = [i \in 1..Len(q) |-> Gone(q[i])]
  BY <1>1 DEF Aged
<1>4. Aged(q) \in Seq(Entries) /\ Len(Aged(q)) = Len(q)
  BY <1>1, <1>2, <1>3
<1>5. \A s \in Seq(Entries) : Len(s) = 0 => s = <<>>
  OBVIOUS
<1> QED BY <1>2, <1>3, <1>4, <1>5

LEMMA AgedCallTypes ==
  ASSUME NEW c \in Apps
  PROVE  /\ AgedCall(c) \in Apps /\ AgedCall(c).step = c.step
         /\ c # Idle => AgedCall(c).to = c.to
         /\ c.step = "back" => AgedCall(c).res.own = FALSE
         /\ c.step # "back" => AgedCall(c) = c
<1>1. CASE c.step = "back"
  <2>1. c \in Returning
    BY <1>1, AppKinds
  <2>2. Gone(c.res) \in Entries /\ Gone(c.res).own = FALSE
    BY <2>1, GoneTypes DEF Returning
  <2>3. AgedCall(c) = [c EXCEPT !.res = Gone(c.res)]
    BY <1>1 DEF AgedCall
  <2> HIDE DEF AgedCall
  <2> QED BY <1>1, <2>1, <2>2, <2>3 DEF Returning, Apps
<1>2. CASE c.step # "back"
  BY <1>2 DEF AgedCall
<1> QED BY <1>1, <1>2

LEMMA QueuedTypes ==
  ASSUME NEW q \in Seq(Entries), NEW p \in Packets
  PROVE  Queued(q, p) \in Seq(Entries)
<1>1. [len |-> p.len, own |-> TRUE] \in Entries
  BY DEF Entries, Packets
<1> QED BY <1>1, AgedTypes, PushedTypes DEF Queued

LEMMA ArrivedTypes ==
  ASSUME KvTypes, NEW n \in Nodes, air[n] # <<>>
  PROVE  /\ air[n] \in Seq(Packets) /\ Head(air[n]) \in Packets
         /\ Tail(air[n]) \in Seq(Packets)
         /\ [air EXCEPT ![n] = Tail(@)] \in [Nodes -> Seq(Packets)]
<1>1. air[n] \in Seq(Packets)
  BY DEF KvTypes
<1>2. Head(air[n]) \in Packets /\ Tail(air[n]) \in Seq(Packets)
  BY <1>1, Rest
<1> QED BY <1>1, <1>2 DEF KvTypes

LEMMA ReceiveForm ==
  ASSUME KvTypes, NEW n \in Nodes, Receive(n)
  PROVE  /\ packet' = [packet EXCEPT ![n] = Head(air[n])]
         /\ air' = [air EXCEPT ![n] = Tail(@)]
         /\ rx_buffer' = [rx_buffer EXCEPT ![n] = Queued(rx_buffer[n], Head(air[n]))]
         /\ app' = [app EXCEPT ![n] = AgedCall(app[n])]
<1>1. Older(n) = Aged(rx_buffer[n])
  BY DEF Older, Aged
<1>2. rx_buffer' = [rx_buffer EXCEPT ![n] = Queued(rx_buffer[n], Head(air[n]))]
  BY <1>1 DEF Receive, Queued
<1>3. app' = [app EXCEPT ![n] = AgedCall(app[n])]
  BY DEF Receive, AgedCall, KvTypes
<1> QED BY <1>2, <1>3 DEF Receive

\* What the receiver is about to send, if it answers for the key.
Answering(n, p) ==
  [step |-> "answer", to |-> p.from, len |-> kv_callbacks_[n][p.id] + 1]

LEMMA AnswersTypes ==
  ASSUME KvTypes, NEW n \in Nodes, NEW p \in Packets, OnReceive_Request(n, p) \/ OnReceive_Responce(p)
  PROVE  /\ tx_buffer' \in [Nodes -> Buffers]
         /\ receiver' \in [Nodes -> Receivers]
<1>1. CASE OnReceive_Responce(p) \/ p.id \notin DOMAIN kv_callbacks_[n]
  BY <1>1 DEF OnReceive_Request, OnReceive_Responce, KvTypes
<1>2. CASE OnReceive_Request(n, p) /\ p.id \in DOMAIN kv_callbacks_[n]
  <2>1. /\ p.id \in Keys /\ Value(n, p.id) \in Bytes
        /\ kv_callbacks_[n][p.id] + 1 \in Lengths \ {1}
    BY <1>2, Known
  <2>2. [id |-> p.id, value |-> Value(n, p.id)] \in Buffers
    BY <2>1 DEF Buffers
  <2>3. p.from \in Nodes
    BY DEF Packets
  <2> DEFINE size == kv_callbacks_[n][p.id] + 1
  <2>4. receiver' = [receiver EXCEPT ![n] = [step |-> "answer", to |-> p.from, len |-> size]]
    BY <1>2 DEF OnReceive_Request
  <2>5. tx_buffer' = [tx_buffer EXCEPT ![n] = [id |-> p.id, value |-> Value(n, p.id)]]
    BY <1>2 DEF OnReceive_Request
  <2>6. size \in Lengths \ {1}
    BY <2>1
  <2> HIDE DEF size
  <2>7. [step |-> "answer", to |-> p.from, len |-> size] \in Receivers
    BY <2>3, <2>6 DEF Receivers, Busy
  <2> QED BY <2>2, <2>4, <2>5, <2>7 DEF KvTypes
<1> QED BY <1>1, <1>2

LEMMA ReceiveTypes ==
  ASSUME KvTypes, NEW n \in Nodes, Receive(n)
  PROVE  KvTypes'
<1> DEFINE p == Head(air[n])
           queue == Queued(rx_buffer[n], p)
           c == AgedCall(app[n])
<1>0. /\ packet' = [packet EXCEPT ![n] = p]
      /\ rx_buffer' = [rx_buffer EXCEPT ![n] = queue]
      /\ app' = [app EXCEPT ![n] = c]
  BY ReceiveForm
<1>1. /\ p \in Packets
      /\ air' \in [Nodes -> Seq(Packets)]
  BY ArrivedTypes, ReceiveForm DEF Receive
<1>2. packet' \in [Nodes -> Packets \cup {None}]
  BY <1>0, <1>1 DEF KvTypes
<1>3. queue \in Seq(Entries) /\ c \in Apps
  BY <1>1, QueuedTypes, AgedCallTypes DEF KvTypes
<1>4. OnReceive_Request(n, p) \/ OnReceive_Responce(p)
  BY DEF Receive
<1> HIDE DEF p, queue, c
<1>5. rx_buffer' \in [Nodes -> Seq(Entries)]
  BY <1>0, <1>3 DEF KvTypes
<1>6. app' \in [Nodes -> Apps]
  BY <1>0, <1>3 DEF KvTypes
<1>7. tx_buffer' \in [Nodes -> Buffers] /\ receiver' \in [Nodes -> Receivers]
  BY <1>1, <1>4, AnswersTypes
<1>8. DOMAIN answer' = Nodes
  BY DEF Receive, KvTypes
<1> QED BY <1>1, <1>2, <1>5, <1>6, <1>7, <1>8 DEF KvTypes

\* What Answer sends.
Answered(n) == [from |-> n, id |-> tx_buffer[n].id, value |-> tx_buffer[n].value,
                len |-> receiver[n].len]

LEMMA AnsweredTypes ==
  ASSUME KvTypes, NEW n \in Nodes, receiver[n] # Idle
  PROVE  /\ receiver[n] \in Busy /\ receiver[n].to \in Nodes
         /\ Answered(n) \in Packets /\ Answered(n).len # 1 /\ Answered(n).from = n
<1>1. receiver[n] \in Busy
  BY ReceiverKinds DEF KvTypes
<1>2. tx_buffer[n] \in Buffers
  BY DEF KvTypes
<1> QED BY <1>1, <1>2 DEF Busy, Buffers, Answered, Packets

LEMMA AnswerTypes ==
  ASSUME KvTypes, NEW n \in Nodes, Answer(n)
  PROVE  KvTypes'
<1>1. air' \in [Nodes -> Seq(Packets)]
  BY AnsweredTypes, PutTypes DEF Answer, Answered, KvTypes
<1>2. receiver' \in [Nodes -> Receivers]
  BY DEF Answer, KvTypes, Receivers
<1> QED BY <1>1, <1>2 DEF Answer, KvTypes

LEMMA LoseTypes ==
  ASSUME KvTypes, NEW n \in Nodes, Lose(n)
  PROVE  KvTypes'
BY ArrivedTypes DEF Lose, KvTypes

LEMMA StartTypes == KvInit => KvTypes
<1> SUFFICES ASSUME KvInit PROVE KvTypes
  OBVIOUS
<1>1. [id |-> 0, value |-> None] \in Buffers
  BY AskedKeys DEF Buffers, Bytes
<1>2. tx_buffer \in [Nodes -> Buffers]
  BY <1>1 DEF KvInit
<1>3. receiver \in [Nodes -> Receivers] /\ app \in [Nodes -> Apps]
  BY DEF KvInit, Receivers, Apps
<1>4. air \in [Nodes -> Seq(Packets)] /\ rx_buffer \in [Nodes -> Seq(Entries)]
  BY DEF KvInit
<1>5. packet \in [Nodes -> Packets \cup {None}]
  BY DEF KvInit
<1>6. DOMAIN answer = Nodes
  BY DEF KvInit
<1> QED BY <1>2, <1>3, <1>4, <1>5, <1>6 DEF KvTypes

LEMMA TypesKept == KvTypes /\ [KvNext]_kvVars => KvTypes'
<1> SUFFICES ASSUME KvTypes, [KvNext]_kvVars PROVE KvTypes'
  OBVIOUS
<1>1. CASE UNCHANGED kvVars
  BY <1>1 DEF kvVars, KvTypes
<1>2. CASE KvNext
  BY <1>2, GetRemoteTypes, RequestTypes, TakeAnswerTypes, TakeOtherTypes,
     PutBackTypes, ReceiveTypes, AnswerTypes, LoseTypes
     DEF KvNext, AppStep, ReceiverStep
<1> QED BY <1>1, <1>2

-----------------------------------------------------------------------------
(***************************************************************************)
(* Until a call writes over an answer, every answer is the whole value of  *)
(* its key: where it is under way, where it arrived, and where it is about *)
(* to be sent.                                                             *)
(***************************************************************************)
Whole(p) == p.len # 1 =>
  /\ p.id \in DOMAIN kv_callbacks_[p.from]
  /\ p.value = Value(p.from, p.id)
  /\ p.len = kv_callbacks_[p.from][p.id] + 1

AllWhole(q) == \A i \in DOMAIN q : Whole(q[i])

Wholeness ==
  garbled \/ \A n \in Nodes :
    /\ AllWhole(air[n])
    /\ packet[n] # None => Whole(packet[n])
    /\ receiver[n] # Idle => Whole(Answered(n))

LEMMA WholeAppended ==
  ASSUME NEW q \in Seq(Packets), NEW p \in Packets, AllWhole(q), Whole(p)
  PROVE  AllWhole(Append(q, p))
<1> DEFINE s == Append(q, p)
<1>1. /\ DOMAIN q = 1..Len(q) /\ Len(q) \in Nat
      /\ DOMAIN s = 1..Len(q) + 1
      /\ s[Len(q) + 1] = p
      /\ \A i \in 1..Len(q) : s[i] = q[i]
  BY Appended
<1> HIDE DEF s
<1>2. ASSUME NEW i \in DOMAIN s PROVE Whole(s[i])
  <2>1. CASE i \in 1..Len(q)
    BY <1>1, <2>1 DEF AllWhole
  <2>2. CASE i = Len(q) + 1
    BY <1>1, <2>2
  <2> QED BY <1>1, <1>2, <2>1, <2>2
<1> QED BY <1>2 DEF AllWhole, s

LEMMA WholeRest ==
  ASSUME NEW q \in Seq(Packets), q # <<>>, AllWhole(q)
  PROVE  Whole(Head(q)) /\ AllWhole(Tail(q))
<1>1. /\ Head(q) = q[1] /\ 1 \in DOMAIN q
      /\ \A i \in DOMAIN Tail(q) : i + 1 \in DOMAIN q /\ Tail(q)[i] = q[i + 1]
  BY Rest
<1> QED BY <1>1 DEF AllWhole

LEMMA WholeAir ==
  ASSUME KvTypes, NEW to \in Nodes, NEW p \in Packets, Put(to, p), Whole(p),
         \A n \in Nodes : AllWhole(air[n])
  PROVE  \A n \in Nodes : AllWhole(air'[n])
<1>1. AllWhole(Append(air[to], p))
  BY WholeAppended DEF KvTypes
<1> QED BY <1>1 DEF Put, KvTypes

LEMMA WholeLess ==
  ASSUME KvTypes, NEW n \in Nodes, air[n] # <<>>, air' = [air EXCEPT ![n] = Tail(@)],
         \A k \in Nodes : AllWhole(air[k])
  PROVE  Whole(Head(air[n])) /\ \A k \in Nodes : AllWhole(air'[k])
<1>1. Whole(Head(air[n])) /\ AllWhole(Tail(air[n]))
  BY WholeRest DEF KvTypes
<1> QED BY <1>1 DEF KvTypes

LEMMA GetRemoteWhole ==
  ASSUME KvTypes, Wholeness, NEW n \in Nodes, GetRemote(n)
  PROVE  Wholeness'
<1> SUFFICES ASSUME ~garbled' PROVE Wholeness'
  BY DEF Wholeness
<1>1. ~garbled /\ receiver[n] = Idle
  BY DEF GetRemote
<1>2. \A k \in Nodes : k # n => tx_buffer'[k] = tx_buffer[k]
  BY DEF GetRemote, KvTypes
<1> QED BY <1>1, <1>2 DEF GetRemote, Wholeness, Answered

LEMMA RequestWhole ==
  ASSUME KvTypes, Wholeness, NEW n \in Nodes, Request(n)
  PROVE  Wholeness'
<1> SUFFICES ASSUME ~garbled PROVE Wholeness'
  BY DEF Wholeness, Request
<1>1. Asked(n) \in Packets /\ app[n].to \in Nodes /\ Put(app[n].to, Asked(n))
  BY AskedTypes DEF Request, Asked
<1>2. Whole(Asked(n))
  BY DEF Whole, Asked
<1>3. \A k \in Nodes : AllWhole(air'[k])
  BY <1>1, <1>2, WholeAir DEF Wholeness
<1> QED BY <1>3 DEF Request, Wholeness, Answered

LEMMA ReceiveWhole ==
  ASSUME KvTypes, Wholeness, NEW n \in Nodes, Receive(n)
  PROVE  Wholeness'
<1> SUFFICES ASSUME ~garbled PROVE Wholeness'
  BY DEF Wholeness, Receive
<1> DEFINE p == Head(air[n])
<1>1. p \in Packets /\ Whole(p) /\ \A k \in Nodes : AllWhole(air'[k])
  BY ArrivedTypes, WholeLess DEF Receive, Wholeness
<1>2. packet' = [packet EXCEPT ![n] = p] /\ receiver[n] = Idle
  BY DEF Receive
<1>3. OnReceive_Request(n, p) \/ OnReceive_Responce(p)
  BY DEF Receive
<1> HIDE DEF p
<1>4. \A k \in Nodes : packet'[k] # None => Whole(packet'[k])
  BY <1>1, <1>2 DEF KvTypes, Wholeness
<1>5. \A k \in Nodes : receiver'[k] # Idle => Whole(Answered(k)')
  <2>1. CASE receiver' = receiver /\ tx_buffer' = tx_buffer
    BY <2>1 DEF Wholeness, Answered
  <2>2. CASE OnReceive_Request(n, p) /\ p.id \in DOMAIN kv_callbacks_[n]
    <3>1. /\ tx_buffer' = [tx_buffer EXCEPT ![n] = [id |-> p.id, value |-> Value(n, p.id)]]
          /\ receiver' = [receiver EXCEPT ![n] = Answering(n, p)]
      BY <2>2 DEF OnReceive_Request, Answering
    <3>2. Answered(n)' = [from |-> n, id |-> p.id, value |-> Value(n, p.id),
                          len |-> kv_callbacks_[n][p.id] + 1]
      BY <3>1 DEF Answered, Answering, KvTypes
    <3>3. Whole(Answered(n)')
      BY <2>2, <3>2 DEF Whole
    <3>4. \A k \in Nodes : k # n => receiver'[k] = receiver[k] /\ tx_buffer'[k] = tx_buffer[k]
      BY <3>1 DEF KvTypes
    <3>5. \A k \in Nodes : k # n /\ receiver'[k] # Idle => Whole(Answered(k)')
      BY <3>4 DEF Wholeness, Answered
    <3> QED BY <3>3, <3>5
  <2> QED BY <1>3, <2>1, <2>2 DEF OnReceive_Request, OnReceive_Responce
<1> QED BY <1>1, <1>4, <1>5 DEF Receive, Wholeness

LEMMA AnswerWhole ==
  ASSUME KvTypes, Wholeness, NEW n \in Nodes, Answer(n)
  PROVE  Wholeness'
<1> SUFFICES ASSUME ~garbled PROVE Wholeness'
  BY DEF Wholeness, Answer
<1>1. /\ Answered(n) \in Packets /\ receiver[n].to \in Nodes
      /\ Put(receiver[n].to, Answered(n))
  BY AnsweredTypes DEF Answer, Answered
<1>2. Whole(Answered(n))
  BY DEF Answer, Wholeness
<1>3. \A k \in Nodes : AllWhole(air'[k])
  BY <1>1, <1>2, WholeAir DEF Wholeness
<1>4. \A k \in Nodes : receiver'[k] # Idle => receiver'[k] = receiver[k]
  BY DEF Answer, KvTypes
<1> QED BY <1>3, <1>4 DEF Answer, Wholeness, Answered

LEMMA LoseWhole ==
  ASSUME KvTypes, Wholeness, NEW n \in Nodes, Lose(n)
  PROVE  Wholeness'
<1> SUFFICES ASSUME ~garbled PROVE Wholeness'
  BY DEF Wholeness, Lose
<1>1. \A k \in Nodes : AllWhole(air'[k])
  BY WholeLess DEF Lose, Wholeness
<1> QED BY <1>1 DEF Lose, Wholeness, Answered

\* The steps of a call that send nothing.
LEMMA CallWhole ==
  ASSUME Wholeness, NEW n \in Nodes, TakeAnswer(n) \/ TakeOther(n) \/ PutBack(n)
  PROVE  Wholeness'
BY DEF TakeAnswer, TakeOther, PutBack, Wholeness, Answered

LEMMA WholeKept == KvTypes /\ Wholeness /\ [KvNext]_kvVars => Wholeness'
<1> SUFFICES ASSUME KvTypes, Wholeness, [KvNext]_kvVars PROVE Wholeness'
  OBVIOUS
<1>1. CASE UNCHANGED kvVars
  BY <1>1 DEF kvVars, Wholeness, Answered
<1>2. CASE KvNext
  BY <1>2, GetRemoteWhole, RequestWhole, CallWhole, ReceiveWhole, AnswerWhole,
     LoseWhole DEF KvNext, AppStep, ReceiverStep
<1> QED BY <1>1, <1>2

LEMMA StartWhole == KvInit => Wholeness
BY DEF KvInit, Wholeness, AllWhole

-----------------------------------------------------------------------------
(***************************************************************************)
(* A call has one thing under way: its request, the answer being written,  *)
(* the answer on the air, queued, or held to be put back.  Whatever it is, *)
(* it is between the caller and the node it asked, and nothing is left of  *)
(* it when the call returns.  So what a node takes from its queue cannot   *)
(* be the answer to another call, although nothing in a packet says so.    *)
(***************************************************************************)
\* A request is told by who asks; answers are all of a kind.
Kind(p) == IF p.len = 1 THEN <<p.from>> ELSE <<>>

Holds(q, kind) == \E i \in DOMAIN q : Kind(q[i]) = kind
Once(q, kind) == \A i, j \in DOMAIN q : Kind(q[i]) = kind /\ Kind(q[j]) = kind => i = j
AnswersFrom(q, to) == \A i \in DOMAIN q : Kind(q[i]) = <<>> => q[i].from = to

Serves(r, n) == r # Idle /\ r.to = n

\* An entry whose bytes are still its own is that of the packet held.
Fits(e, p, to) == e.own => p # None /\ p.from = to /\ p.len = e.len

Requested(n, c, a, r, q) ==
  \A m \in Nodes : Holds(a[m], <<n>>) =>
    /\ c.step = "wait" /\ m = c.to /\ Once(a[m], <<n>>)
    /\ ~Serves(r[m], n) /\ ~Holds(a[n], <<>>) /\ q = <<>>

Served(n, c, a, r, q) ==
  \A m \in Nodes : Serves(r[m], n) =>
    /\ c.step = "wait" /\ m = c.to
    /\ ~Holds(a[n], <<>>) /\ q = <<>>

OnTheWay(n, c, a, q) ==
  Holds(a[n], <<>>) =>
    /\ c.step = "wait" /\ q = <<>>
    /\ Once(a[n], <<>>) /\ AnswersFrom(a[n], c.to)

Arrived(c, q, p) == q # <<>> => c.step = "wait" /\ Len(q) = 1 /\ Fits(q[1], p, c.to)

Back(c, p) == c.step = "back" => Fits(c.res, p, c.to)

Pending(n, c, a, r, q, p) ==
  /\ Requested(n, c, a, r, q)
  /\ Served(n, c, a, r, q)
  /\ OnTheWay(n, c, a, q)
  /\ Arrived(c, q, p)
  /\ Back(c, p)

OneThing == \A n \in Nodes : Pending(n, app[n], air, receiver, rx_buffer[n], packet[n])

\* q holds no more of a kind than s does.
Few(q, s, kind) ==
  /\ Holds(q, kind) => Holds(s, kind)
  /\ Once(s, kind) => Once(q, kind)

FewAnswers(q, s) == Few(q, s, <<>>) /\ \A to : AnswersFrom(s, to) => AnswersFrom(q, to)

LEMMA SameFew == \A q : FewAnswers(q, q) /\ \A kind : Few(q, q, kind)
BY DEF FewAnswers, Few

LEMMA Kinds ==
  ASSUME NEW p
  PROVE  /\ p.len = 1 => Kind(p) = <<p.from>>
         /\ p.len # 1 => Kind(p) = <<>>
         /\ \A n : <<n>> # <<>>
         /\ \A n : Kind(p) = <<n>> => p.len = 1 /\ p.from = n
         /\ Kind(p) = <<>> => p.len # 1
<1>1. \A n : <<n>> # <<>>
  OBVIOUS
<1>2. \A m, n : <<m>> = <<n>> => m = n
  OBVIOUS
<1> QED BY <1>1, <1>2 DEF Kind

LEMMA FewLeft ==
  ASSUME NEW q \in Seq(Packets), q # <<>>
  PROVE  /\ FewAnswers(Tail(q), q) /\ \A kind : Few(Tail(q), q, kind)
         /\ Holds(q, Kind(Head(q)))
         /\ Once(q, Kind(Head(q))) => ~Holds(Tail(q), Kind(Head(q)))
<1> DEFINE s == Tail(q)
<1>1. /\ Head(q) = q[1] /\ 1 \in DOMAIN q /\ DOMAIN q = 1..Len(q) /\ Len(q) \in Nat
      /\ DOMAIN s = 1..Len(q) - 1
      /\ \A i \in DOMAIN s : i + 1 \in DOMAIN q /\ i + 1 # 1 /\ s[i] = q[i + 1]
  BY Rest
<1> HIDE DEF s
<1>2. \A kind : Holds(s, kind) => Holds(q, kind)
  BY <1>1 DEF Holds
<1>3. \A i, j \in DOMAIN s : i + 1 = j + 1 => i = j
  BY <1>1
<1>4. \A kind : Once(q, kind) => Once(s, kind)
  <2> SUFFICES ASSUME NEW kind, Once(q, kind), NEW i \in DOMAIN s, NEW j \in DOMAIN s,
                      Kind(s[i]) = kind, Kind(s[j]) = kind
               PROVE  i = j
    BY DEF Once
  <2>1. i + 1 \in DOMAIN q /\ j + 1 \in DOMAIN q /\ Kind(q[i + 1]) = kind /\ Kind(q[j + 1]) = kind
    BY <1>1
  <2>2. i + 1 = j + 1
    BY <2>1 DEF Once
  <2> QED BY <1>3, <2>2
<1>5. \A to : AnswersFrom(q, to) => AnswersFrom(s, to)
  BY <1>1 DEF AnswersFrom
<1>6. Holds(q, Kind(Head(q)))
  BY <1>1 DEF Holds
<1>7. Once(q, Kind(Head(q))) => ~Holds(s, Kind(Head(q)))
  BY <1>1 DEF Once, Holds
<1> QED BY <1>2, <1>4, <1>5, <1>6, <1>7 DEF Few, FewAnswers, s

LEMMA MoreOfAKind ==
  ASSUME NEW q \in Seq(Packets), NEW p \in Packets
  PROVE  /\ \A kind : kind # Kind(p) => Few(Append(q, p), q, kind)
         /\ ~Holds(q, Kind(p)) => Once(Append(q, p), Kind(p))
         /\ \A to : /\ Kind(p) # <<>> /\ AnswersFrom(q, to) => AnswersFrom(Append(q, p), to)
                    /\ ~Holds(q, <<>>) /\ p.from = to => AnswersFrom(Append(q, p), to)
<1> DEFINE s == Append(q, p)
           new == Len(q) + 1
<1>1. /\ DOMAIN q = 1..Len(q)
      /\ DOMAIN s = 1..new
      /\ s[new] = p
      /\ \A i \in 1..Len(q) : s[i] = q[i]
      /\ Len(q) \in Nat
  BY Appended
<1>2. \A i \in DOMAIN s : i = new \/ (i \in DOMAIN q /\ s[i] = q[i])
  BY <1>1
<1> HIDE DEF s, new
<1>3. ASSUME NEW kind, kind # Kind(p)
      PROVE  Few(s, q, kind)
  BY <1>1, <1>2, <1>3 DEF Few, Holds, Once
<1>4. ~Holds(q, Kind(p)) => Once(s, Kind(p))
  BY <1>1, <1>2 DEF Holds, Once
<1>5. ASSUME NEW to
      PROVE  /\ Kind(p) # <<>> /\ AnswersFrom(q, to) => AnswersFrom(s, to)
             /\ ~Holds(q, <<>>) /\ p.from = to => AnswersFrom(s, to)
  BY <1>1, <1>2 DEF AnswersFrom, Holds
<1> QED BY <1>3, <1>4, <1>5 DEF s

\* Others see a packet that is not for them come or go, and no more.
LEMMA BystanderKept ==
  ASSUME NEW n \in Nodes, NEW c, NEW a, NEW r, NEW q, NEW p, NEW b, NEW s,
         Pending(n, c, a, r, q, p),
         \A m \in Nodes : Few(b[m], a[m], <<n>>) /\ (Serves(s[m], n) => Serves(r[m], n)),
         FewAnswers(b[n], a[n])
  PROVE  Pending(n, c, b, s, q, p)
<1>1. Requested(n, c, b, s, q)
  BY DEF Pending, Requested, Few, FewAnswers
<1>2. Served(n, c, b, s, q)
  BY DEF Pending, Served, Few, FewAnswers
<1>3. OnTheWay(n, c, b, q)
  BY DEF Pending, OnTheWay, Few, FewAnswers
<1> QED BY <1>1, <1>2, <1>3 DEF Pending

\* A caller that waits for nothing has nothing under way.
LEMMA CalmBefore ==
  ASSUME NEW n \in Nodes, NEW c, NEW a, NEW r, NEW q, NEW p,
         Pending(n, c, a, r, q, p), c.step # "wait"
  PROVE  /\ \A m \in Nodes : ~Holds(a[m], <<n>>) /\ ~Serves(r[m], n)
         /\ ~Holds(a[n], <<>>) /\ q = <<>>
BY DEF Pending, Requested, Served, OnTheWay, Arrived

LEMMA CalmAfter ==
  ASSUME NEW n \in Nodes, NEW c, NEW a, NEW r, NEW q, NEW p,
         \A m \in Nodes : ~Holds(a[m], <<n>>) /\ ~Serves(r[m], n),
         ~Holds(a[n], <<>>), q # <<>> => Arrived(c, q, p), Back(c, p)
  PROVE  Pending(n, c, a, r, q, p)
BY DEF Pending, Requested, Served, OnTheWay, Arrived

LEMMA GetRemotePending ==
  ASSUME KvTypes, OneThing, NEW n \in Nodes, GetRemote(n)
  PROVE  OneThing'
<1>1. app[n].step = "idle" /\ app'[n].step = "named"
  BY DEF GetRemote, KvTypes, Idle
<1>2. \A k \in Nodes : k # n => app'[k] = app[k]
  BY DEF GetRemote, KvTypes
<1>3. UNCHANGED <<air, receiver, rx_buffer, packet>>
  BY DEF GetRemote
<1>4. Pending(n, app[n], air, receiver, rx_buffer[n], packet[n])
  BY DEF OneThing
<1>5. Pending(n, app'[n], air, receiver, rx_buffer[n], packet[n])
  <2>1. Back(app'[n], packet[n])
    BY <1>1 DEF Back
  <2> QED BY <1>1, <1>4, <2>1, CalmBefore, CalmAfter
<1> QED BY <1>2, <1>3, <1>5 DEF OneThing

LEMMA RequestPending ==
  ASSUME KvTypes, OneThing, NEW n \in Nodes, Request(n)
  PROVE  OneThing'
<1> DEFINE to == app[n].to
           p == Asked(n)
<1>1. /\ p \in Packets /\ to \in Nodes /\ Kind(p) = <<n>>
      /\ app'[n].step = "wait" /\ app'[n].to = to
  <2>1. app'[n] = [app[n] EXCEPT !.step = "wait"]
    BY DEF Request, KvTypes
  <2>2. p.len = 1 /\ p.from = n
    BY DEF Asked
  <2>3. /\ p \in Packets /\ to \in Nodes
        /\ [app[n] EXCEPT !.step = "wait"].step = "wait"
        /\ [app[n] EXCEPT !.step = "wait"].to = to
    BY AskedTypes DEF Request
  <2> HIDE DEF to, p
  <2>4. Kind(p) = <<n>>
    BY <2>2, Kinds
  <2> QED BY <2>1, <2>3, <2>4
<1>2. air' = [air EXCEPT ![to] = Append(@, p)]
  BY DEF Request, Put, Asked
<1>3. app[n].step = "named"
  BY DEF Request
<1> HIDE DEF to, p
<1>4. /\ air'[to] = Append(air[to], p) /\ air[to] \in Seq(Packets)
      /\ \A m \in Nodes : m # to => air'[m] = air[m]
  BY <1>1, <1>2 DEF KvTypes
<1>5. \A k : <<k>> # <<>> /\ (k # n => <<k>> # <<n>>)
  OBVIOUS
<1>6. \A m \in Nodes : FewAnswers(air'[m], air[m]) /\ \A k : k # n => Few(air'[m], air[m], <<k>>)
  <2>1. FewAnswers(air'[to], air[to])
    BY <1>1, <1>4, <1>5, MoreOfAKind DEF FewAnswers
  <2>2. \A k : k # n => Few(air'[to], air[to], <<k>>)
    BY <1>1, <1>4, <1>5, MoreOfAKind
  <2> QED BY <1>4, <2>1, <2>2, SameFew
<1>7. UNCHANGED <<receiver, rx_buffer, packet>>
  BY DEF Request
<1>8. ASSUME NEW k \in Nodes, k # n
      PROVE  Pending(k, app'[k], air', receiver, rx_buffer[k], packet[k])
  <2>1. app'[k] = app[k] /\ Pending(k, app[k], air, receiver, rx_buffer[k], packet[k])
    BY <1>8 DEF Request, KvTypes, OneThing
  <2>2. \A m \in Nodes : Few(air'[m], air[m], <<k>>)
    BY <1>6, <1>8
  <2> QED BY <1>6, <2>1, <2>2, BystanderKept
<1>9. Pending(n, app'[n], air', receiver, rx_buffer[n], packet[n])
  <2>1. /\ \A m \in Nodes : ~Holds(air[m], <<n>>) /\ ~Serves(receiver[m], n)
        /\ ~Holds(air[n], <<>>) /\ rx_buffer[n] = <<>>
    BY <1>3, CalmBefore DEF OneThing
  <2>2. ~Holds(air'[n], <<>>)
    BY <1>6, <2>1 DEF FewAnswers, Few
  <2>3. Once(air'[to], <<n>>)
    BY <1>1, <1>4, <2>1, MoreOfAKind
  <2>4. \A m \in Nodes : Holds(air'[m], <<n>>) => m = to
    BY <1>4, <2>1
  <2>5. Requested(n, app'[n], air', receiver, rx_buffer[n])
    BY <1>1, <2>1, <2>2, <2>3, <2>4 DEF Requested
  <2> QED BY <1>1, <2>1, <2>2, <2>5 DEF Pending, Served, OnTheWay, Arrived, Back
<1> QED BY <1>7, <1>8, <1>9 DEF OneThing

LEMMA TakeAnswerPending ==
  ASSUME KvTypes, OneThing, NEW n \in Nodes, TakeAnswer(n)
  PROVE  OneThing'
<1>1. /\ app[n].step = "wait" /\ rx_buffer[n] # <<>> /\ rx_buffer[n] \in Seq(Entries)
      /\ Pending(n, app[n], air, receiver, rx_buffer[n], packet[n])
  BY DEF TakeAnswer, OneThing, KvTypes
<1>2. Len(rx_buffer[n]) = 1
  BY <1>1 DEF Pending, Arrived
<1>3. rx_buffer'[n] = <<>>
  BY <1>1, <1>2, Alone DEF TakeAnswer, KvTypes
<1>4. /\ \A m \in Nodes : ~Holds(air[m], <<n>>) /\ ~Serves(receiver[m], n)
      /\ ~Holds(air[n], <<>>)
  BY <1>1 DEF Pending, Requested, Served, OnTheWay
<1>5. app'[n].step = "idle"
  BY DEF TakeAnswer, KvTypes, Idle
<1>6. Pending(n, app'[n], air, receiver, rx_buffer'[n], packet[n])
  BY <1>3, <1>4, <1>5, CalmAfter DEF Back
<1>7. \A k \in Nodes : k # n => app'[k] = app[k] /\ rx_buffer'[k] = rx_buffer[k]
  BY DEF TakeAnswer, KvTypes
<1> QED BY <1>6, <1>7 DEF TakeAnswer, OneThing

LEMMA TakeOtherPending ==
  ASSUME KvTypes, OneThing, NEW n \in Nodes, TakeOther(n)
  PROVE  OneThing'
<1> DEFINE res == Head(rx_buffer[n])
<1>1. /\ app[n].step = "wait" /\ rx_buffer[n] # <<>> /\ rx_buffer[n] \in Seq(Entries)
      /\ Pending(n, app[n], air, receiver, rx_buffer[n], packet[n])
  BY DEF TakeOther, OneThing, KvTypes
<1>2. Len(rx_buffer[n]) = 1 /\ Fits(rx_buffer[n][1], packet[n], app[n].to)
  BY <1>1 DEF Pending, Arrived
<1>3. rx_buffer'[n] = <<>> /\ res = rx_buffer[n][1]
  BY <1>1, <1>2, Alone DEF TakeOther, KvTypes
<1>4. /\ \A m \in Nodes : ~Holds(air[m], <<n>>) /\ ~Serves(receiver[m], n)
      /\ ~Holds(air[n], <<>>)
  BY <1>1 DEF Pending, Requested, Served, OnTheWay
<1>5. app'[n] = Held(app[n], res)
  BY DEF TakeOther, KvTypes, Held
<1> HIDE DEF res
<1>6. Back(app'[n], packet[n])
  BY <1>2, <1>3, <1>5 DEF Back, Held
<1>7. Pending(n, app'[n], air, receiver, rx_buffer'[n], packet[n])
  BY <1>3, <1>4, <1>6, CalmAfter
<1>8. \A k \in Nodes : k # n => app'[k] = app[k] /\ rx_buffer'[k] = rx_buffer[k]
  BY DEF TakeOther, KvTypes
<1> QED BY <1>7, <1>8 DEF TakeOther, OneThing

\* A queue with room holds what is put into it; a full one stays as it is.
LEMMA PushedFirst ==
  ASSUME NEW e \in Entries
  PROVE  Pushed(<<>>, e) = <<>> \/ (Len(Pushed(<<>>, e)) = 1 /\ Pushed(<<>>, e)[1] = e)
BY First DEF Pushed

LEMMA PutBackPending ==
  ASSUME KvTypes, OneThing, NEW n \in Nodes, PutBack(n)
  PROVE  OneThing'
<1> DEFINE res == app[n].res
           queue == Pushed(<<>>, res)
<1>1. /\ app[n].step = "back" /\ app[n] \in Returning
      /\ Pending(n, app[n], air, receiver, rx_buffer[n], packet[n])
  BY AppKinds DEF PutBack, OneThing, KvTypes
<1>2. res \in Entries
  BY <1>1 DEF Returning
<1>3. Fits(res, packet[n], app[n].to)
  BY <1>1 DEF Pending, Back
<1>4. /\ \A m \in Nodes : ~Holds(air[m], <<n>>) /\ ~Serves(receiver[m], n)
      /\ ~Holds(air[n], <<>>) /\ rx_buffer[n] = <<>>
  BY <1>1, CalmBefore
<1>5. rx_buffer'[n] = queue
  BY <1>4 DEF PutBack, KvTypes
<1>6. app'[n].step = "wait" /\ app'[n].to = app[n].to
  BY DEF PutBack, KvTypes
<1>7. queue = <<>> \/ (Len(queue) = 1 /\ queue[1] = res)
  BY <1>2, PushedFirst
<1> HIDE DEF res, queue
<1>8. rx_buffer'[n] # <<>> => Arrived(app'[n], rx_buffer'[n], packet[n])
  BY <1>3, <1>5, <1>6, <1>7 DEF Arrived
<1>9. Pending(n, app'[n], air, receiver, rx_buffer'[n], packet[n])
  BY <1>4, <1>6, <1>8, CalmAfter DEF Back
<1>10. \A k \in Nodes : k # n => app'[k] = app[k] /\ rx_buffer'[k] = rx_buffer[k]
  BY DEF PutBack, KvTypes
<1> QED BY <1>9, <1>10 DEF PutBack, OneThing

\* A packet is not the empty buffer.
LEMMA PacketNotNone ==
  ASSUME NEW p \in Packets
  PROVE  p # None
<1>1. "len" \in DOMAIN p
  BY DEF Packets
<1>2. DOMAIN None = {}
  BY DEF None
<1> QED BY <1>1, <1>2

\* What leaves the air leaves no more of any kind behind.
LEMMA LessAir ==
  ASSUME KvTypes, NEW n \in Nodes, air[n] # <<>>, air' = [air EXCEPT ![n] = Tail(@)]
  PROVE  /\ \A m \in Nodes : FewAnswers(air'[m], air[m]) /\ \A kind : Few(air'[m], air[m], kind)
         /\ Head(air[n]) \in Packets
         /\ Holds(air[n], Kind(Head(air[n])))
         /\ Once(air[n], Kind(Head(air[n]))) => ~Holds(air'[n], Kind(Head(air[n])))
         /\ \A to : AnswersFrom(air[n], to) /\ Kind(Head(air[n])) = <<>> => Head(air[n]).from = to
<1>1. air[n] \in Seq(Packets)
  BY DEF KvTypes
<1>2. air'[n] = Tail(air[n]) /\ \A m \in Nodes : m # n => air'[m] = air[m]
  BY DEF KvTypes
<1>3. /\ FewAnswers(Tail(air[n]), air[n]) /\ \A kind : Few(Tail(air[n]), air[n], kind)
      /\ Holds(air[n], Kind(Head(air[n])))
      /\ Once(air[n], Kind(Head(air[n]))) => ~Holds(Tail(air[n]), Kind(Head(air[n])))
  BY <1>1, FewLeft
<1>4. Head(air[n]) = air[n][1] /\ 1 \in DOMAIN air[n] /\ Head(air[n]) \in Packets
  BY <1>1, Rest
<1>5. \A m \in Nodes : FewAnswers(air'[m], air[m]) /\ \A kind : Few(air'[m], air[m], kind)
  BY <1>2, <1>3, SameFew
<1>6. \A to : AnswersFrom(air[n], to) /\ Kind(Head(air[n])) = <<>> => Head(air[n]).from = to
  BY <1>4 DEF AnswersFrom
<1> QED BY <1>2, <1>3, <1>4, <1>5, <1>6

LEMMA LosePending ==
  ASSUME KvTypes, OneThing, NEW n \in Nodes, Lose(n)
  PROVE  OneThing'
<1>1. \A m \in Nodes : FewAnswers(air'[m], air[m]) /\ \A kind : Few(air'[m], air[m], kind)
  BY LessAir DEF Lose
<1>2. UNCHANGED <<app, receiver, rx_buffer, packet>>
  BY DEF Lose
<1>3. ASSUME NEW k \in Nodes
      PROVE  Pending(k, app[k], air', receiver, rx_buffer[k], packet[k])
  <2>1. Pending(k, app[k], air, receiver, rx_buffer[k], packet[k])
    BY DEF OneThing
  <2>2. \A m \in Nodes : Few(air'[m], air[m], <<k>>)
    BY <1>1
  <2> QED BY <1>1, <2>1, <2>2, BystanderKept
<1> QED BY <1>2, <1>3 DEF OneThing

LEMMA AnswerPending ==
  ASSUME KvTypes, OneThing, NEW n \in Nodes, Answer(n)
  PROVE  OneThing'
<1> DEFINE to == receiver[n].to
           p == Answered(n)
<1>1. /\ p \in Packets /\ to \in Nodes /\ Kind(p) = <<>> /\ p.from = n
      /\ Serves(receiver[n], to)
  BY AnsweredTypes, Kinds DEF Answer, Serves
<1>2. air' = [air EXCEPT ![to] = Append(@, p)] /\ receiver' = [receiver EXCEPT ![n] = Idle]
  BY DEF Answer, Put, Answered
<1>3. \A k : Serves(receiver[n], k) => k = to
  BY DEF Serves
<1> HIDE DEF to, p
<1>4. /\ air'[to] = Append(air[to], p) /\ air[to] \in Seq(Packets)
      /\ \A m \in Nodes : m # to => air'[m] = air[m]
  BY <1>1, <1>2 DEF KvTypes
<1>5. \A k : <<k>> # <<>>
  OBVIOUS
<1>6. \A m \in Nodes : \A k : Few(air'[m], air[m], <<k>>)
  <2>1. \A k : Few(air'[to], air[to], <<k>>)
    BY <1>1, <1>4, <1>5, MoreOfAKind
  <2> QED BY <1>4, <2>1, SameFew
<1>7. \A m \in Nodes : \A k : Serves(receiver'[m], k) => m # n /\ Serves(receiver[m], k)
  BY <1>2 DEF KvTypes, Serves
<1>8. UNCHANGED <<app, rx_buffer, packet>>
  BY DEF Answer
<1>9. ASSUME NEW k \in Nodes, k # to
      PROVE  Pending(k, app[k], air', receiver', rx_buffer[k], packet[k])
  <2>1. Pending(k, app[k], air, receiver, rx_buffer[k], packet[k])
    BY DEF OneThing
  <2>2. FewAnswers(air'[k], air[k])
    BY <1>4, <1>9, SameFew
  <2> QED BY <1>6, <1>7, <2>1, <2>2, BystanderKept
<1>10. Pending(to, app[to], air', receiver', rx_buffer[to], packet[to])
  <2>1. Pending(to, app[to], air, receiver, rx_buffer[to], packet[to])
    BY <1>1 DEF OneThing
  <2>2. /\ app[to].step = "wait" /\ n = app[to].to
        /\ ~Holds(air[to], <<>>) /\ rx_buffer[to] = <<>>
    BY <1>1, <2>1 DEF Pending, Served
  <2>3. \A m \in Nodes : ~Holds(air'[m], <<to>>)
    <3>1. \A m \in Nodes : ~Holds(air[m], <<to>>)
      BY <1>1, <2>1, <2>2 DEF Pending, Requested
    <3> QED BY <1>6, <3>1 DEF Few
  <2>4. \A m \in Nodes : ~Serves(receiver'[m], to)
    BY <1>7, <2>1, <2>2 DEF Pending, Served
  <2>5. Once(air'[to], <<>>) /\ AnswersFrom(air'[to], n)
    BY <1>1, <1>4, <2>2, MoreOfAKind
  <2> QED BY <2>2, <2>3, <2>4, <2>5 DEF Pending, Requested, Served, OnTheWay, Arrived, Back
<1> QED BY <1>8, <1>9, <1>10 DEF OneThing

(***************************************************************************)
(* A packet arrives.                                                       *)
(***************************************************************************)
LEMMA ReceiveFacts ==
  ASSUME KvTypes, NEW n \in Nodes, Receive(n)
  PROVE  /\ packet'[n] = Head(air[n])
         /\ rx_buffer'[n] = Queued(rx_buffer[n], Head(air[n]))
         /\ app'[n] = AgedCall(app[n])
         /\ \A k \in Nodes : k # n => /\ packet'[k] = packet[k] /\ app'[k] = app[k]
                                      /\ rx_buffer'[k] = rx_buffer[k]
<1>1. /\ packet' = [packet EXCEPT ![n] = Head(air[n])]
      /\ rx_buffer' = [rx_buffer EXCEPT ![n] = Queued(rx_buffer[n], Head(air[n]))]
      /\ app' = [app EXCEPT ![n] = AgedCall(app[n])]
  BY ReceiveForm
<1> QED BY <1>1 DEF KvTypes

\* Only a request is served, and only for the one who asked.
LEMMA NewlyServed ==
  ASSUME KvTypes, NEW n \in Nodes, Receive(n)
  PROVE  \A m \in Nodes : \A k :
           /\ Serves(receiver'[m], k) =>
                Serves(receiver[m], k) \/ (m = n /\ Kind(Head(air[n])) = <<k>>)
           /\ Serves(receiver'[m], k) /\ m # n => Serves(receiver[m], k)
<1> DEFINE p == Head(air[n])
<1>1. OnReceive_Request(n, p) \/ OnReceive_Responce(p)
  BY DEF Receive
<1> HIDE DEF p
<1>2. CASE receiver' = receiver
  BY <1>2
<1>3. CASE OnReceive_Request(n, p) /\ p.id \in DOMAIN kv_callbacks_[n]
  <2>1. receiver' = [receiver EXCEPT ![n] = Answering(n, p)] /\ p.len = 1
    BY <1>3 DEF OnReceive_Request, Answering
  <2>2. receiver'[n] = Answering(n, p) /\ \A m \in Nodes : m # n => receiver'[m] = receiver[m]
    BY <2>1 DEF KvTypes
  <2>3. Answering(n, p).to = p.from
    BY DEF Answering
  <2>4. Kind(p) = <<p.from>>
    BY <2>1, Kinds
  <2>5. \A k : Serves(receiver'[n], k) => Kind(p) = <<k>>
    BY <2>2, <2>3, <2>4 DEF Serves
  <2> QED BY <2>2, <2>5 DEF p
<1> QED BY <1>1, <1>2, <1>3 DEF OnReceive_Request, OnReceive_Responce

LEMMA ReceiveAnswerPending ==
  ASSUME KvTypes, OneThing, NEW n \in Nodes, Receive(n), Head(air[n]).len # 1
  PROVE  OneThing'
<1> DEFINE p == Head(air[n])
           q == Pushed(<<>>, [len |-> p.len, own |-> TRUE])
<1>1. /\ p \in Packets /\ Holds(air[n], <<>>) /\ Kind(p) = <<>>
      /\ \A m \in Nodes : FewAnswers(air'[m], air[m]) /\ \A kind : Few(air'[m], air[m], kind)
      /\ Once(air[n], <<>>) => ~Holds(air'[n], <<>>)
      /\ \A to : AnswersFrom(air[n], to) => p.from = to
  <2>1. Kind(p) = <<>>
    BY Kinds
  <2>2. air[n] # <<>> /\ air' = [air EXCEPT ![n] = Tail(@)]
    BY DEF Receive
  <2> QED BY <2>1, <2>2, LessAir
<1>2. \A k : <<k>> # <<>>
  OBVIOUS
<1>3. \A m \in Nodes : \A k : Serves(receiver'[m], k) => Serves(receiver[m], k)
  BY <1>1, <1>2, NewlyServed
<1>4. ASSUME NEW k \in Nodes, k # n
      PROVE  Pending(k, app'[k], air', receiver', rx_buffer'[k], packet'[k])
  <2>1. app'[k] = app[k] /\ rx_buffer'[k] = rx_buffer[k] /\ packet'[k] = packet[k]
    BY <1>4, ReceiveFacts
  <2>2. Pending(k, app[k], air, receiver, rx_buffer[k], packet[k])
    BY DEF OneThing
  <2>3. \A m \in Nodes : Few(air'[m], air[m], <<k>>)
    BY <1>1
  <2> QED BY <1>1, <1>3, <2>1, <2>2, <2>3, BystanderKept
<1>5. Pending(n, app'[n], air', receiver', rx_buffer'[n], packet'[n])
  <2>1. Pending(n, app[n], air, receiver, rx_buffer[n], packet[n])
    BY DEF OneThing
  <2>2. /\ app[n].step = "wait" /\ rx_buffer[n] = <<>>
        /\ Once(air[n], <<>>) /\ AnswersFrom(air[n], app[n].to)
    BY <1>1, <2>1 DEF Pending, OnTheWay
  <2>3. \A m \in Nodes : ~Holds(air[m], <<n>>) /\ ~Serves(receiver[m], n)
    BY <1>1, <2>1 DEF Pending, Requested, Served
  <2>4. \A m \in Nodes : ~Holds(air'[m], <<n>>) /\ ~Serves(receiver'[m], n)
    BY <1>1, <1>3, <2>3 DEF Few
  <2>5. ~Holds(air'[n], <<>>)
    BY <1>1, <2>2
  <2>6. app'[n] = app[n]
    BY <2>2, ReceiveFacts DEF AgedCall
  <2>7. p.len > 1 /\ p.len \in Lengths
    BY <1>1 DEF Packets, Lengths
  <2>8. rx_buffer'[n] = q
    <3>1. <<>> \in Seq(Entries)
      OBVIOUS
    <3>2. Aged(<<>>) = <<>>
      BY <3>1, AgedTypes
    <3> QED BY <2>2, <2>7, <3>2, ReceiveFacts DEF Queued
  <2>9. [len |-> p.len, own |-> TRUE] \in Entries
    BY <2>7 DEF Entries
  <2>10. q = <<>> \/ (Len(q) = 1 /\ q[1] = [len |-> p.len, own |-> TRUE])
    BY <2>9, PushedFirst
  <2>11. packet'[n] = p /\ p # None /\ p.from = app[n].to
    BY <1>1, <2>2, ReceiveFacts, PacketNotNone
  <2> HIDE DEF p, q
  <2>12. rx_buffer'[n] # <<>> => Arrived(app'[n], rx_buffer'[n], packet'[n])
    BY <2>2, <2>6, <2>8, <2>10, <2>11 DEF Arrived, Fits
  <2>13. Back(app'[n], packet'[n])
    BY <2>2, <2>6 DEF Back
  <2> QED BY <2>4, <2>5, <2>12, <2>13, CalmAfter
<1> QED BY <1>4, <1>5 DEF OneThing

LEMMA ReceiveRequestPending ==
  ASSUME KvTypes, OneThing, NEW n \in Nodes, Receive(n), Head(air[n]).len = 1
  PROVE  OneThing'
<1> DEFINE p == Head(air[n])
           f == p.from
<1>1. /\ p \in Packets /\ Holds(air[n], <<f>>) /\ Kind(p) = <<f>>
      /\ \A m \in Nodes : FewAnswers(air'[m], air[m]) /\ \A kind : Few(air'[m], air[m], kind)
      /\ Once(air[n], <<f>>) => ~Holds(air'[n], <<f>>)
  <2>1. Kind(p) = <<f>>
    BY Kinds
  <2>2. air[n] # <<>> /\ air' = [air EXCEPT ![n] = Tail(@)]
    BY DEF Receive
  <2> QED BY <2>1, <2>2, LessAir
<1>2. \A k : <<k>> = <<f>> => k = f
  OBVIOUS
<1>3. /\ \A m \in Nodes : \A k : k # f /\ Serves(receiver'[m], k) => Serves(receiver[m], k)
      /\ \A m \in Nodes : m # n /\ Serves(receiver'[m], f) => Serves(receiver[m], f)
  BY <1>1, <1>2, NewlyServed
<1>4. f \in Nodes
  BY <1>1 DEF Packets
<1>5. /\ rx_buffer'[n] = Aged(rx_buffer[n]) /\ rx_buffer[n] \in Seq(Entries)
      /\ app'[n] = AgedCall(app[n]) /\ app[n] \in Apps
  <2>1. p.len = 1 /\ ~(1 > 1)
    OBVIOUS
  <2>2. ~(p.len > 1)
    BY <2>1
  <2>3. rx_buffer'[n] = Queued(rx_buffer[n], p) /\ app'[n] = AgedCall(app[n])
    BY ReceiveFacts
  <2> HIDE DEF p
  <2>4. Queued(rx_buffer[n], p) = Aged(rx_buffer[n])
    BY <2>2 DEF Queued
  <2> QED BY <2>3, <2>4 DEF KvTypes
<1>6. /\ Len(rx_buffer'[n]) = Len(rx_buffer[n])
      /\ \A i \in 1..Len(rx_buffer[n]) : rx_buffer'[n][i].own = FALSE
      /\ rx_buffer[n] = <<>> => rx_buffer'[n] = <<>>
  BY <1>5, AgedTypes
<1>7. /\ app'[n].step = app[n].step
      /\ app[n].step # "idle" => app'[n].to = app[n].to
      /\ app[n].step = "back" => app'[n].res.own = FALSE
  <2>1. app[n] = Idle => app[n].step = "idle"
    BY <1>5, AppKinds
  <2> QED BY <1>5, <2>1, AgedCallTypes
<1> HIDE DEF p, f
<1>8. ASSUME NEW k \in Nodes, k # f, k # n
      PROVE  Pending(k, app'[k], air', receiver', rx_buffer'[k], packet'[k])
  <2>1. app'[k] = app[k] /\ rx_buffer'[k] = rx_buffer[k] /\ packet'[k] = packet[k]
    BY <1>8, ReceiveFacts
  <2>2. Pending(k, app[k], air, receiver, rx_buffer[k], packet[k])
    BY DEF OneThing
  <2>3. \A m \in Nodes : Few(air'[m], air[m], <<k>>)
    BY <1>1
  <2>4. \A m \in Nodes : Serves(receiver'[m], k) => Serves(receiver[m], k)
    BY <1>3, <1>8
  <2> QED BY <1>1, <2>1, <2>2, <2>3, <2>4, BystanderKept
<1>9. ASSUME n # f
      PROVE  Pending(n, app'[n], air', receiver', rx_buffer'[n], packet'[n])
  <2>1. Pending(n, app[n], air, receiver, rx_buffer[n], packet[n])
    BY DEF OneThing
  <2>2. \A m \in Nodes : Few(air'[m], air[m], <<n>>) /\ (Serves(receiver'[m], n) => Serves(receiver[m], n))
    BY <1>1, <1>3, <1>9
  <2>3. Pending(n, app[n], air', receiver', rx_buffer[n], packet[n])
    BY <1>1, <2>1, <2>2, BystanderKept
  <2>4. Arrived(app'[n], rx_buffer'[n], packet'[n])
    <3> SUFFICES ASSUME rx_buffer'[n] # <<>>
                 PROVE  /\ app'[n].step = "wait" /\ Len(rx_buffer'[n]) = 1
                        /\ Fits(rx_buffer'[n][1], packet'[n], app'[n].to)
      BY DEF Arrived
    <3>1. app[n].step = "wait" /\ Len(rx_buffer[n]) = 1
      BY <1>6, <2>1 DEF Pending, Arrived
    <3>2. rx_buffer'[n][1].own = FALSE
      BY <1>6, <3>1
    <3> QED BY <1>6, <1>7, <3>1, <3>2 DEF Fits
  <2>5. Back(app'[n], packet'[n])
    BY <1>7 DEF Back, Fits
  <2>6. Requested(n, app'[n], air', receiver', rx_buffer'[n])
    BY <1>6, <1>7, <2>3 DEF Pending, Requested
  <2>7. Served(n, app'[n], air', receiver', rx_buffer'[n])
    BY <1>6, <1>7, <2>3 DEF Pending, Served
  <2>8. OnTheWay(n, app'[n], air', rx_buffer'[n])
    BY <1>6, <1>7, <2>3 DEF Pending, OnTheWay
  <2> QED BY <2>4, <2>5, <2>6, <2>7, <2>8 DEF Pending
<1>10. Pending(f, app'[f], air', receiver', rx_buffer'[f], packet'[f])
  <2>1. Pending(f, app[f], air, receiver, rx_buffer[f], packet[f])
    BY <1>4 DEF OneThing
  <2>2. /\ app[f].step = "wait" /\ n = app[f].to /\ Once(air[n], <<f>>)
        /\ ~Holds(air[f], <<>>) /\ rx_buffer[f] = <<>>
    BY <1>1, <2>1 DEF Pending, Requested
  <2>3. app'[f].step = "wait" /\ app'[f].to = n /\ rx_buffer'[f] = <<>>
    <3>1. CASE f = n
      BY <1>6, <1>7, <2>2, <3>1
    <3>2. CASE f # n
      BY <1>4, <2>2, <3>2, ReceiveFacts
    <3> QED BY <3>1, <3>2
  <2>4. ~Holds(air'[f], <<>>)
    BY <1>1, <1>4, <2>2 DEF Few
  <2>5. \A m \in Nodes : ~Holds(air'[m], <<f>>)
    <3>1. \A m \in Nodes : Holds(air[m], <<f>>) => m = n
      BY <2>1, <2>2 DEF Pending, Requested
    <3> QED BY <1>1, <2>2, <3>1 DEF Few
  <2>6. \A m \in Nodes : Serves(receiver'[m], f) => m = n
    BY <1>3, <2>1, <2>2 DEF Pending, Served
  <2> QED BY <2>3, <2>4, <2>5, <2>6 DEF Pending, Requested, Served, OnTheWay, Arrived, Back
<1> QED BY <1>8, <1>9, <1>10 DEF OneThing

LEMMA PendingsKept == KvTypes /\ OneThing /\ [KvNext]_kvVars => OneThing'
<1> SUFFICES ASSUME KvTypes, OneThing, [KvNext]_kvVars PROVE OneThing'
  OBVIOUS
<1>1. CASE UNCHANGED kvVars
  BY <1>1 DEF kvVars, OneThing
<1>2. CASE KvNext
  <2> PICK n \in Nodes : GetRemote(n) \/ AppStep(n) \/ ReceiverStep(n) \/ Lose(n)
    BY <1>2 DEF KvNext
  <2>1. CASE Receive(n)
    BY <2>1, ReceiveAnswerPending, ReceiveRequestPending
  <2> QED BY <2>1, GetRemotePending, RequestPending, TakeAnswerPending, TakeOtherPending,
       PutBackPending, AnswerPending, LosePending DEF AppStep, ReceiverStep
<1> QED BY <1>1, <1>2

LEMMA StartPending == KvInit => OneThing
<1> SUFFICES ASSUME KvInit, NEW n \in Nodes
             PROVE  Pending(n, app[n], air, receiver, rx_buffer[n], packet[n])
  BY DEF OneThing
<1>1. app[n].step = "idle" /\ rx_buffer[n] = <<>>
  BY DEF KvInit, Idle
<1>2. \A m \in Nodes : \A kind : ~Holds(air[m], kind)
  BY DEF KvInit, Holds
<1>3. \A m \in Nodes : ~Serves(receiver[m], n)
  BY DEF KvInit, Serves
<1> QED BY <1>1, <1>2, <1>3, CalmAfter DEF Back

-----------------------------------------------------------------------------
(***************************************************************************)
(* The answers the callers hold.                                           *)
(***************************************************************************)
LEMMA TakesOwn ==
  ASSUME KvTypes, Wholeness, OneThing, NEW n \in Nodes, TakeAnswer(n), ~garbled, answer'[n].own
  PROVE  /\ answer'[n].value = Value(answer'[n].to, answer'[n].id)
         /\ answer'[n].len = kv_callbacks_[answer'[n].to][answer'[n].id]
<1> DEFINE res == Head(rx_buffer[n])
           p == packet[n]
<1>1. /\ app[n].step = "wait" /\ rx_buffer[n] # <<>> /\ rx_buffer[n] \in Seq(Entries)
      /\ Pending(n, app[n], air, receiver, rx_buffer[n], p)
  BY DEF TakeAnswer, OneThing, KvTypes
<1>2. Len(rx_buffer[n]) = 1 /\ Fits(rx_buffer[n][1], p, app[n].to)
  BY <1>1 DEF Pending, Arrived
<1>3. res = rx_buffer[n][1]
  BY <1>1, <1>2, Alone
<1>4. answer'[n] = [to |-> app[n].to, id |-> app[n].id, value |-> p.value,
                    len |-> res.len - 1, own |-> res.own]
  BY DEF TakeAnswer, KvTypes
<1>5. res.len > 3 /\ p.id = app[n].id
  BY DEF TakeAnswer, IsAnswer
<1> HIDE DEF res
<1>6. p # None /\ p.from = app[n].to /\ p.len = res.len
  BY <1>2, <1>3, <1>4 DEF Fits
<1>7. p \in Packets /\ Whole(p)
  BY <1>6 DEF KvTypes, Wholeness
<1> HIDE DEF p
<1>8. p.len \in Nat /\ p.from \in Nodes
  BY <1>7 DEF Packets, Lengths
<1>9. p.len # 1
  BY <1>5, <1>6, <1>8
<1>10. /\ p.id \in DOMAIN kv_callbacks_[p.from] /\ p.value = Value(p.from, p.id)
       /\ p.len = kv_callbacks_[p.from][p.id] + 1
  BY <1>7, <1>9 DEF Whole
<1>11. kv_callbacks_[p.from][p.id] \in Nat
  BY <1>8, <1>10, Known DEF Lengths
<1>12. p.len - 1 = kv_callbacks_[p.from][p.id]
  BY <1>10, <1>11
<1> QED BY <1>4, <1>5, <1>6, <1>10, <1>12

LEMMA AnswersKept ==
  ASSUME KvTypes, Wholeness, OneThing, AnswersMatch, [KvNext]_kvVars
  PROVE  AnswersMatch'
<1>1. CASE answer' = answer
  <2>1. garbled => garbled'
    BY DEF kvVars, KvNext, AppStep, ReceiverStep, GetRemote, Request, TakeAnswer,
       TakeOther, PutBack, Receive, Answer, Lose
  <2> QED BY <1>1, <2>1 DEF AnswersMatch
<1>2. ASSUME NEW n \in Nodes, GetRemote(n) PROVE AnswersMatch'
  <2>1. \A k \in Nodes : answer'[k] = None \/ answer'[k] = answer[k]
    BY <1>2 DEF GetRemote, KvTypes
  <2>2. garbled => garbled'
    BY <1>2 DEF GetRemote
  <2> QED BY <2>1, <2>2 DEF AnswersMatch
<1>3. ASSUME NEW n \in Nodes, TakeAnswer(n) PROVE AnswersMatch'
  <2>1. \A k \in Nodes : k # n => answer'[k] = answer[k]
    BY <1>3 DEF TakeAnswer, KvTypes
  <2>2. garbled' = garbled
    BY <1>3 DEF TakeAnswer
  <2> QED BY <1>3, <2>1, <2>2, TakesOwn DEF AnswersMatch
<1> QED BY <1>1, <1>2, <1>3 DEF KvNext, AppStep, ReceiverStep, Request, TakeOther, PutBack,
      Receive, Answer, Lose, kvVars

(***************************************************************************)
(* GetRemote returns the whole value of the node and the key it asked for, *)
(* for any number of nodes and calls, any loss, any queue (kv.hpp), unless *)
(* one of the two things happens that AnswersMatch excuses.                *)
(***************************************************************************)
THEOREM AnswersAreThoseAsked == KvSpec => []AnswersMatch
<1>1. KvInit => AnswersMatch
  BY DEF KvInit, AnswersMatch
<1>2. KvTypes /\ Wholeness /\ OneThing /\ AnswersMatch /\ [KvNext]_kvVars => AnswersMatch'
  BY AnswersKept
<1> QED BY <1>1, <1>2, StartTypes, StartWhole, StartPending, TypesKept, WholeKept,
      PendingsKept, PTL DEF KvSpec
=============================================================================
