----------------------------- MODULE FepDriver -----------------------------
(***************************************************************************)
(* FEPDriver::Init (fep_driver.hpp): find the baud rate the modem speaks,  *)
(* set the wanted one, write the configured registers, and only then let   *)
(* radio packets through.                                                  *)
(*                                                                         *)
(* The commands of FEP_RawDriver appear by their outcome: a modem at       *)
(* another baud rate does not answer, one at the same rate answers, unless *)
(* a fault of Faults interferes.  Registers take effect when the modem is  *)
(* reset; register 20 holds the baud rate (its other bits are left out).   *)
(***************************************************************************)
EXTENDS Integers, Sequences, FiniteSets

CONSTANTS Configured,   \* configured_registers_: address -> value
          Wanted,       \* configured_baudrate_, as register 20 holds it
          Values,       \* values a register can hold
          Ports,        \* serial ports it may run on, subset of PortKind
          Faults,       \* what the link may do: sets of FaultKind
          MaxNoise      \* bound: lines in the queue when noise adds another

Baud == 0..3                       \* k9600, k19200, k38400, k115200
Reg20 == 20
Addr == DOMAIN Configured \cup {Reg20}
Candidates == <<3, 0, 2, 1>>
FactoryBaud == 0                   \* "Default baudrate"
Nothing == -1                      \* no line came
VersionLine == -2                  \* the answer to @VER, or garbage: no number

PortKind == {"IUART",        \* Rebaud as its name says
             "UARTStream"}   \* the one implementation in the repository

FaultKind == {"lost", "late", "refused",   \* what becomes of an answer
              "radio"}                     \* other stations send meanwhile

ASSUME ConfigAssumption ==
  /\ Ports \subseteq PortKind
  /\ Wanted \in Baud
  /\ Baud \subseteq Values /\ Values \subseteq Nat
  /\ DOMAIN Configured \subseteq 0..255
  /\ \A a \in DOMAIN Configured : Configured[a] \in IF a = Reg20 THEN Baud ELSE Values
  /\ Faults \subseteq SUBSET FaultKind
  /\ MaxNoise \in Nat

VARIABLES
  faults,      \* what it does in this behaviour
  pc,          \* where Init is
  phase,       \* 1 before, 2 after ChangeBaudRate
  try,         \* 0 for the first probe, then the candidate being probed
  port,        \* PortKind
  stream,      \* baud rate of the serial port
  deaf,        \* its receive callback is no longer attached
  modem,       \* baud rate of the modem
  stored,      \* its registers, in force after the next reset
  busy,        \* FEP_RawDriver::state_ is kProcessing
  lines,       \* FEP_RawDriver::line_queue_
  late,        \* lines the modem has still to send
  woken,       \* history: what came in last found the driver busy
  todo,        \* registers ConfigureRegisters has not visited
  changed,     \* any_register_changed
  detected,    \* the last AdjustBaudrateToRemote ended by an answered probe
  rx_enabled,
  outcome      \* what Init returned

portVars == <<stream, deaf>>
modemVars == <<portVars, modem, stored>>
lineVars == <<busy, lines, late, woken>>
vars == <<faults, port, pc, phase, try, modemVars, lineVars, todo, changed, detected,
          rx_enabled, outcome>>

Init ==
  /\ faults \in Faults
  /\ pc = "start" /\ phase = 1 /\ try = 0
  /\ port \in Ports
  /\ stream \in Baud /\ deaf = FALSE
  /\ stored \in [Addr -> Values] /\ stored[Reg20] \in Baud
  /\ modem = stored[Reg20]
  /\ busy = FALSE /\ lines = <<>> /\ late = <<>> /\ woken = FALSE
  /\ todo = {} /\ changed = FALSE /\ detected = FALSE
  /\ rx_enabled = TRUE /\ outcome = "none"

(***************************************************************************)
(* A command answered by a line.  The reader takes the oldest line there   *)
(* is, which need not be the answer to this command.  A driver that is     *)
(* busy refuses the command after its wait; nothing is sent.  Noise of an  *)
(* earlier radio packet may swallow an answer or spoil it.                 *)
(***************************************************************************)
Fate == {"answered"} \cup (faults \cap {"lost", "late"})
          \cup (IF "radio" \in faults THEN {"lost", "garbled"} ELSE {})

Sent == ~busy /\ stream = modem   \* a command reaches the modem

\* a change: the callback is attached to the new serial object, too
SlipHeard == stream = modem

Heard == stream = modem /\ ~deaf   \* what the modem says reaches the driver

LinesWith(content, fate) ==
  CASE Heard /\ fate = "answered" -> Append(lines, content)
    [] Heard /\ fate = "garbled"  -> Append(lines, VersionLine)
    [] OTHER                      -> lines

\* a change: the command is sent without waiting for the driver to be idle
SlipAsk(content, fate, got) ==
  LET q == LinesWith(content, fate)
  IN  /\ late' = IF Heard /\ fate = "late" THEN Append(late, content) ELSE late
      /\ got = IF q = <<>> THEN Nothing ELSE Head(q)
      /\ lines' = IF q = <<>> THEN <<>> ELSE Tail(q)

Ask(content, fate, got) ==
  LET q == LinesWith(content, fate)
  IN  /\ ~busy
      /\ late' = IF Heard /\ fate = "late" THEN Append(late, content) ELSE late
      /\ got = IF q = <<>> THEN Nothing ELSE Head(q)
      /\ lines' = IF q = <<>> THEN <<>> ELSE Tail(q)

\* slip: the error of the read is not passed on
SlipVersionUnchecked(ok) ==
  \/ \E fate \in Fate, got \in Values \cup {VersionLine, Nothing} :
       /\ Ask(VersionLine, fate, got)
       /\ ok
       /\ UNCHANGED <<busy, woken>>
  \/ busy /\ ~ok /\ UNCHANGED lineVars

Version(ok) ==
  \/ \E fate \in Fate, got \in Values \cup {VersionLine, Nothing} :
       /\ Ask(VersionLine, fate, got)
       /\ ok = (got # Nothing)
       /\ UNCHANGED <<busy, woken>>
  \/ busy /\ ~ok /\ UNCHANGED lineVars

\* A line that is no number leaves the value uninitialized; a timeout leaves
\* the driver busy.
GetRegister(a, value) ==
  \/ \E fate \in Fate, got \in Values \cup {VersionLine, Nothing} :
       /\ Ask(stored[a], fate, got)
       /\ IF got = VersionLine THEN value \in Values ELSE value = got
       /\ busy' = (got = Nothing)
       /\ woken' = (got # Nothing /\ woken)
  \/ busy /\ value = Nothing /\ UNCHANGED lineVars

(***************************************************************************)
(* A command answered by a result.  A refusal comes back as a result like  *)
(* any other, and the callers do not look at it.  Noise may pass for one.  *)
(***************************************************************************)
MaySwallow == faults \cap {"lost", "radio"} # {}
MayMakeUp == "radio" \in faults /\ ~busy /\ ~deaf

SetRegister(a, value, ok) ==
  /\ stored' \in {stored} \cup {[stored EXCEPT ![a] = value]}
  /\ IF Sent
     THEN /\ ok => ~deaf
          /\ ~ok => deaf \/ MaySwallow
          /\ stored' = stored /\ stored[a] # value =>
               IF ok THEN "refused" \in faults \/ {"lost", "radio"} \subseteq faults
                     ELSE "lost" \in faults
     ELSE (ok => MayMakeUp) /\ stored' = stored

Reset(ok) ==
  IF Sent
  THEN \/ modem' = stored[Reg20] /\ (ok => ~deaf) /\ (~ok => deaf \/ MaySwallow)
       \/ modem' = modem /\ "lost" \in faults /\ (ok => MayMakeUp)
  ELSE (ok => MayMakeUp) /\ modem' = modem

(***************************************************************************)
(* The modem sends unasked.  A packet that is heard leaves the driver idle *)
(* (ExitProcessing), whatever command it was busy with.  At another rate   *)
(* it is noise: the parser may get stuck in it, or take it for a line.     *)
(***************************************************************************)
Noise ==
  /\ busy' \in BOOLEAN
  /\ \/ UNCHANGED lines
     \/ Len(lines) < MaxNoise /\ lines' = Append(lines, VersionLine)

Unasked == woken' = (busy /\ ~deaf)

\* A line arrives after its reader gave up.
LateLine ==
  /\ late # <<>>
  /\ late' = Tail(late)
  /\ \/ deaf /\ UNCHANGED <<lines, busy>>
     \/ Heard /\ lines' = Append(lines, Head(late)) /\ busy' = FALSE
     \/ ~Heard /\ ~deaf /\ Noise
  /\ Unasked
  /\ UNCHANGED <<pc, phase, try, modemVars, todo, changed, detected, rx_enabled,
                 outcome>>

\* A radio packet: rx_enabled is off, it goes to the queue of FEP_RawDriver.
RadioPacket ==
  /\ "radio" \in faults /\ ~deaf /\ outcome = "none"
  /\ \/ Heard /\ busy' = FALSE /\ UNCHANGED lines
     \/ ~Heard /\ Noise
  /\ Unasked
  /\ UNCHANGED <<pc, phase, try, modemVars, late, todo, changed, detected, rx_enabled,
                 outcome>>

-----------------------------------------------------------------------------
\* UARTStream closes its serial object and opens another one; the callback
\* the constructor attached goes with the first.
Rebaud(b) == stream' = b /\ deaf' = (deaf \/ port = "UARTStream")

Start ==
  /\ pc = "start"
  /\ rx_enabled' = FALSE
  /\ pc' = "probe" /\ try' = 0 /\ detected' = FALSE
  /\ UNCHANGED <<phase, modemVars, lineVars, todo, changed, outcome>>

(***************************************************************************)
(* AdjustBaudrateToRemote: probe as it is, then at every candidate rate;   *)
(* when nothing answers, reset the modem's registers and try the first.    *)
(***************************************************************************)
\* slip: every other candidate is skipped
SlipSkipsCandidate(n) == n + 2

NextCandidate(n) == n + 1

Probe ==
  /\ pc = "probe"
  /\ \E ok \in BOOLEAN :
       /\ Version(ok)
       /\ IF ok
          THEN /\ detected' = TRUE
               /\ pc' = IF phase = 1 THEN "getReg20" ELSE "configure"
               /\ UNCHANGED <<try, portVars>>
          ELSE /\ UNCHANGED detected
               /\ IF NextCandidate(try) <= Len(Candidates)
                  THEN /\ try' = NextCandidate(try)
                       /\ Rebaud(Candidates[try'])
                       /\ UNCHANGED pc
                  ELSE pc' = "resetHW" /\ UNCHANGED <<try, portVars>>
  /\ todo' = IF pc' = "configure" THEN DOMAIN Configured ELSE todo
  /\ UNCHANGED <<phase, modem, stored, changed, rx_enabled, outcome>>

\* ResetRegistersHW ends with Rebaud(9600), its caller goes on to the first
\* candidate.
ResetRegistersHW ==
  /\ pc = "resetHW"
  /\ stored' \in {[a \in Addr |-> IF a = Reg20 THEN FactoryBaud ELSE v] : v \in Values}
  /\ modem' = FactoryBaud
  /\ Rebaud(Candidates[1])
  /\ pc' = IF phase = 1 THEN "getReg20" ELSE "configure"
  /\ todo' = IF phase = 1 THEN todo ELSE DOMAIN Configured
  /\ UNCHANGED <<phase, try, lineVars, changed, detected, rx_enabled, outcome>>

(***************************************************************************)
(* ChangeBaudRate.  Every way out leads to the second                      *)
(* AdjustBaudrateToRemote; errors are only logged.                         *)
(***************************************************************************)
AdjustAgain == pc' = "probe" /\ phase' = 2 /\ try' = 0 /\ detected' = FALSE

GetReg20 ==
  /\ pc = "getReg20"
  /\ \E v \in Values \cup {Nothing} :
       /\ GetRegister(Reg20, v)
       /\ IF v = Nothing \/ v = Wanted THEN AdjustAgain
          ELSE pc' = "setReg20" /\ UNCHANGED <<phase, try, detected>>
  /\ UNCHANGED <<modemVars, todo, changed, rx_enabled, outcome>>

SetReg20 ==
  /\ pc = "setReg20"
  /\ \E ok \in BOOLEAN :
       /\ SetRegister(Reg20, Wanted, ok)
       /\ IF ok THEN pc' = "resetNoResult" /\ UNCHANGED <<phase, try, detected>>
                ELSE AdjustAgain
  /\ UNCHANGED <<portVars, modem, lineVars, todo, changed, rx_enabled, outcome>>

\* ResetNoResult with its flush, then Rebaud.
ResetNoResult ==
  /\ pc = "resetNoResult"
  /\ \E ok \in BOOLEAN : Reset(ok)
  /\ lines' = IF busy THEN lines ELSE <<>>
  /\ Rebaud(Wanted)
  /\ AdjustAgain
  /\ UNCHANGED <<stored, busy, late, woken, todo, changed, rx_enabled, outcome>>

(***************************************************************************)
(* ConfigureRegisters, in the unspecified order of the unordered_map.      *)
(***************************************************************************)
Finish(o) == pc' = "done" /\ outcome' = o

CheckRegister ==
  /\ pc = "configure"
  /\ \E a \in todo, v \in Values \cup {Nothing} :
       /\ GetRegister(a, v)
       /\ \/ /\ v = Nothing
             /\ Finish("error")
             /\ UNCHANGED <<todo, try>>
          \/ /\ v = Configured[a]
             /\ todo' = todo \ {a}
             /\ UNCHANGED <<pc, outcome, try>>
          \/ /\ v \notin {Nothing, Configured[a]}
             /\ pc' = "setRegister"
             /\ try' = a                \* the register to write
             /\ UNCHANGED <<todo, outcome>>
  /\ UNCHANGED <<phase, modemVars, changed, detected, rx_enabled>>

SetConfigured ==
  /\ pc = "setRegister"
  /\ \E ok \in BOOLEAN :
       /\ SetRegister(try, Configured[try], ok)
       /\ IF ok THEN pc' = "configure" /\ UNCHANGED outcome ELSE Finish("error")
  /\ changed' = TRUE
  /\ todo' = todo \ {try}
  /\ UNCHANGED <<phase, try, portVars, modem, lineVars, detected, rx_enabled>>

\* The reset that puts the registers in force, and SetDispatchRX(true).
Configure ==
  /\ pc = "configure" /\ todo = {}
  /\ \E ok \in BOOLEAN :
       /\ IF changed THEN Reset(ok) ELSE ok /\ UNCHANGED modem
       /\ rx_enabled' = ok
       /\ Finish(IF ok THEN "ok" ELSE "error")
  /\ UNCHANGED <<phase, try, portVars, stored, lineVars, todo, changed, detected>>

Step == \/ Start \/ Probe \/ ResetRegistersHW \/ GetReg20 \/ SetReg20
        \/ ResetNoResult \/ CheckRegister \/ SetConfigured \/ Configure

Next == (Step \/ LateLine \/ RadioPacket) /\ UNCHANGED <<faults, port>>

Spec == Init /\ [][Next]_vars

\* Init is sequential code on a thread that is scheduled.
FairSpec == Spec /\ WF_vars(Step /\ UNCHANGED <<faults, port>>)

-----------------------------------------------------------------------------
\* Every variable of the initialisation and of the modem has its type.
TypeOK ==
  /\ faults \in Faults
  /\ pc \in {"start", "probe", "resetHW", "getReg20", "setReg20", "resetNoResult",
             "configure", "setRegister", "done"}
  /\ phase \in 1..2 /\ try \in Nat
  /\ port \in Ports /\ deaf \in BOOLEAN
  /\ stream \in Baud /\ modem \in Baud
  /\ stored \in [Addr -> Values] /\ stored[Reg20] \in Baud
  /\ busy \in BOOLEAN /\ woken \in BOOLEAN
  /\ lines \in Seq(Values \cup {VersionLine}) /\ late \in Seq(Values \cup {VersionLine})
  /\ todo \subseteq DOMAIN Configured
  /\ changed \in BOOLEAN /\ detected \in BOOLEAN /\ rx_enabled \in BOOLEAN
  /\ outcome \in {"none", "ok", "error"}

(***************************************************************************)
(* Init ends, with or without an answer.  On a faultless link, over a port *)
(* that can be rebauded, it succeeds from every combination of rates and   *)
(* registers, and leaves port and modem at the wanted rate, every          *)
(* configured register in place and radio packets enabled.                 *)
(***************************************************************************)
InitEstablishes ==
  <>(/\ outcome # "none"
     /\ faults = {} /\ port = "IUART" =>
          /\ outcome = "ok"
          /\ stream = Wanted /\ modem = Wanted
          /\ \A a \in DOMAIN Configured : stored[a] = Configured[a]
          /\ rx_enabled)

(***************************************************************************)
(* As long as answers may be lost but are not late, and no other station   *)
(* makes noise, a rate is taken for detected only if the modem speaks it.  *)
(* (Types are checked here.)                                               *)
(***************************************************************************)
Unsolicited == faults \cap {"late", "radio"} # {}

DetectedIsRight ==
  /\ TypeOK
  /\ detected /\ outcome = "none" /\ ~Unsolicited => stream = modem

(***************************************************************************)
(* A lost answer to the read of register 20 leaves the driver busy, and    *)
(* nothing Init does frees it: no later probe or command is even sent, and *)
(* Init ends in an error although the modem is reachable, unless the modem *)
(* sends something unasked in between, a radio packet or the late line.    *)
(***************************************************************************)
OneLostLineFailsInit == pc = "probe" /\ phase = 2 /\ busy ~> outcome = "error" \/ woken

(***************************************************************************)
(* Over UARTStream the first Rebaud is the last that is heard of the       *)
(* modem: unless Init finds the port at the right rate and the modem at    *)
(* the wanted one, it ends in an error, on a faultless link, too.  (With   *)
(* no register configured it would end well, and deaf.)                    *)
(***************************************************************************)
DeafPortFailsInit ==
  deaf /\ ~Unsolicited /\ DOMAIN Configured # {} ~> outcome = "error"

=============================================================================
