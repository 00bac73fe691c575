------------------------- MODULE CommandChannelProofs -------------------------
(***************************************************************************)
(* The command channel for any number of calls and game restarts.  With    *)
(* patient tools of both kinds: the inductive invariant behind the safety  *)
(* properties, and the remote procedure call the channel implements.  With *)
(* impatient tools: the two gates agree, and sb_command_client.py alone    *)
(* still reads its own answers, from an invariant of their own.            *)
(***************************************************************************)
EXTENDS CommandChannel, TLAPS

\* Fewer calls than sequence numbers: no number is used twice in a session.
NoWrap == MaxCalls < SeqMod

\* Tools wait as long as the game may still answer.
Patient == Timeouts = FALSE

Writing == cpc \in {"verb", "args", "seq", "publish"}
Waiting == cpc \in {"wait", "collect"}
Running == ppc \notin {"down", "init"}

\* No number in the block or in Poll is ahead of the calls published so far.
Past(s) == s < call \/ (~Writing /\ s = call)

NumbersPast ==
  /\ Past(requestSeq) /\ Past(responseSeq) /\ Past(lastHandled) /\ Past(preq)
  /\ responseSeq <= requestSeq

\* The number a tool is about to publish, or waits for, is a fresh one.
NumberFresh ==
  /\ cpc = "publish" \/ (kind = "py" /\ cpc \in {"verb", "args"})
       => responseSeq < cseq /\ cseq <= call
  /\ Waiting => 0 < cseq /\ cseq <= call /\ responseSeq <= cseq

\* Where Poll is, told from the three numbers of the block.
GateOpen    == requestSeq = lastHandled /\ lastHandled = responseSeq
RequestOpen == requestSeq = cseq /\ lastHandled = responseSeq /\ responseSeq < cseq

Gate ==
  /\ ppc = "init" => lastHandled = 0 /\ responseSeq = 0
  /\ ppc \in {"idle", "tail"} => lastHandled = responseSeq
  /\ ppc # "down" /\ cpc # "wait" => ~Dispatching /\ GateOpen
  /\ ppc # "down" /\ cpc = "wait" =>
       \/ GateOpen /\ ~Dispatching
       \/ RequestOpen /\ ppc # "publish"
       \/ /\ ppc = "publish"
          /\ requestSeq = cseq /\ lastHandled = cseq /\ responseSeq < cseq
  /\ Dispatching => cpc = "wait" /\ preq = requestSeq /\ preq = cseq

\* The fields of the block, and the verb copied from it, are the call's own.
PayloadOwn ==
  /\ cpc \in {"args", "seq", "publish", "wait", "collect"} => verb \in {call, Blank}
  /\ cpc \in {"seq", "publish", "wait", "collect"} => args \in {call, Blank}
  /\ ppc \in {"run", "status", "publish"} => pverb \in {call, Blank}

\* A call has not run before it is sent, and not while its request is open.
RunsOnce ==
  /\ \A k \in Calls : runs[k] <= 1 /\ (k > call => runs[k] = 0)
  /\ Writing => runs[call] = 0
  /\ cpc = "wait" /\ responseSeq # cseq /\ requestSeq = cseq
       /\ ppc \in {"idle", "tail", "init", "verb", "run"} => runs[call] = 0
\* The result on its way back, and the result a tool may take, are the call's
\* own, and the status says whether the verb ran.
Truthful(code) ==
  /\ code = "OK" => result.verb = call
  /\ code = "UnknownVerb" <=> runs[call] = 0

ResultOwn ==
  /\ (Dispatching /\ ppc # "verb") \/ cpc = "collect" \/ (cpc = "wait" /\ responseSeq = cseq)
       => result.verb \in {call, Blank} /\ result.args \in {call, Blank}
  /\ ppc = "status" => Truthful(pstatus)
  /\ ppc = "publish" \/ (Waiting /\ responseSeq = cseq) => Truthful(status)
  /\ ppc = "run" => result.verb = Blank

FateOpen ==
  /\ \A k \in Calls : k > call => fate[k] = "open"
  /\ cpc # "idle" => fate[call] = "open"

IInv ==
  /\ TypeOK
  /\ NumbersPast /\ NumberFresh /\ Gate
  /\ PayloadOwn /\ RunsOnce /\ ResultOwn /\ FateOpen

-----------------------------------------------------------------------------
(* The steps of the frame update round Poll, and the revival of the updates, *)
(* touch nothing that a tool or Poll reads.                                 *)

FrameStep == PollNothing \/ FinishUpdate \/ Fault \/ Revive

LEMMA FrameStepQuiet ==
  ASSUME FrameStep
  PROVE  /\ ppc \in {"idle", "tail"} /\ ppc' \in {"idle", "tail"}
         /\ UNCHANGED <<block, lastHandled, preq, pverb, pstatus, tool, ghost>>
  BY DEF FrameStep, PollNothing, FinishUpdate, Fault, Revive, frames

-----------------------------------------------------------------------------
(* Type correctness, with no assumption on the tools.                      *)

LEMMA InitType == Init => TypeOK
<1> SUFFICES ASSUME Init PROVE TypeOK
  OBVIOUS
<1>1. updateDisabled \in BOOLEAN
  BY Zenon DEF Init
<1> QED
  BY <1>1, ChannelAssumption
  DEF ChannelAssumption, Init, TypeOK, Calls, Writer, Blank, SeqNums, Codes, Results, NoResult

\* The count of faults and the switch they throw stay in their ranges.
LEMMA FramesType == TypeOK /\ [Next]_vars => avCount' \in 0 .. MaxFaults /\ updateDisabled' \in BOOLEAN
<1> SUFFICES ASSUME TypeOK, [Next]_vars
             PROVE  avCount' \in 0 .. MaxFaults /\ updateDisabled' \in BOOLEAN
  OBVIOUS
<1>1. CASE InitializeHead
  <2>1. avCount' = 0 /\ updateDisabled' = FALSE BY <1>1, Zenon DEF InitializeHead
  <2>2. updateDisabled' \in BOOLEAN BY <2>1, Zenon
  <2>3. avCount' \in 0 .. MaxFaults BY <2>1, ChannelAssumption DEF ChannelAssumption
  <2> QED BY <2>2, <2>3, Zenon
<1>2. CASE Fault
  <2>1. avCount' = IF avCount < MaxFaults THEN avCount + 1 ELSE avCount
    BY <1>2, Zenon DEF Fault
  <2>2. updateDisabled' = TRUE \/ updateDisabled' = updateDisabled
    BY <1>2, Zenon DEF Fault
  <2>3. updateDisabled' \in BOOLEAN
    BY <2>2, Zenon DEF TypeOK
  <2>4. avCount \in 0 .. MaxFaults BY Zenon DEF TypeOK
  <2> QED BY <2>1, <2>3, <2>4, ChannelAssumption DEF ChannelAssumption
<1>3. CASE FinishUpdate
  <2>1. avCount' = 0 /\ updateDisabled' = updateDisabled
    BY <1>3, Zenon DEF FinishUpdate
  <2> QED BY <2>1, ChannelAssumption DEF ChannelAssumption, TypeOK
<1>4. CASE Revive
  <2>1. avCount' \in {0, avCount} /\ updateDisabled' = FALSE
    BY <1>4, Zenon DEF Revive
  <2>2. updateDisabled' \in BOOLEAN
    BY <2>1, Zenon
  <2>3. avCount \in 0 .. MaxFaults BY Zenon DEF TypeOK
  <2> QED BY <2>1, <2>2, <2>3, ChannelAssumption DEF ChannelAssumption
<1>5. CASE UNCHANGED <<avCount, updateDisabled>>
  BY <1>5 DEF TypeOK
<1>6. \/ UNCHANGED <<avCount, updateDisabled>>
      \/ InitializeHead \/ Fault \/ FinishUpdate \/ Revive
  <2> USE DEF plugin, frames
  <2>1. CASE Tool
    BY <2>1, Zenon DEF Tool, PyBegin, CppBegin, Begin, WriteVerb, WriteArgs,
       CppTakeSeq, Publish, PyRaise, Observe, Collect, GiveUp
  <2>2. CASE Plugin
    BY <2>2, Zenon DEF Plugin, RunFrameUpdate, Poll, InitializeTail, PollTake, PollNothing,
       DispatchVerb, DispatchRun, PollStatus, PollPublish, Exit
  <2>3. CASE UNCHANGED vars BY <2>3 DEF vars
  <2> QED BY <2>1, <2>2, <2>3 DEF Next
<1> QED BY <1>1, <1>2, <1>3, <1>4, <1>5, <1>6

LEMMA NextType == TypeOK /\ [Next]_vars => TypeOK'
<1> SUFFICES ASSUME TypeOK, [Next]_vars PROVE TypeOK'
  OBVIOUS
<1> USE ChannelAssumption
    DEF ChannelAssumption, TypeOK, Calls, Writer, Blank, SeqNums, Codes,
        Results, NoResult, block, plugin, frames, tool, ghost,
        NewRequest, HandledNow, Response, CppNextSeq, NumberFits, Answered
<1>t. avCount' \in 0 .. MaxFaults /\ updateDisabled' \in BOOLEAN BY FramesType
<1>1. CASE InitializeHead BY <1>t, <1>1 DEF InitializeHead
<1>2. CASE InitializeTail BY <1>2 DEF InitializeTail
<1>3. CASE PollTake BY <1>3 DEF PollTake
<1>4. CASE DispatchVerb BY <1>4 DEF DispatchVerb
<1>5. CASE DispatchRun
  <2>1. runs' \in [Calls -> Nat] BY <1>5 DEF DispatchRun
  <2>2. result' \in Results BY <1>5 DEF DispatchRun
  <2> QED BY <1>5, <2>1, <2>2 DEF DispatchRun
<1>6. CASE PollStatus BY <1>6 DEF PollStatus
<1>7. CASE PollPublish BY <1>7 DEF PollPublish
<1>8. CASE Exit BY <1>8 DEF Exit
<1>9. CASE PyBegin BY <1>9 DEF PyBegin, Begin
<1>10. CASE CppBegin BY <1>10 DEF CppBegin, Begin
<1>11. CASE WriteVerb BY <1>11 DEF WriteVerb
<1>12. CASE WriteArgs BY <1>12 DEF WriteArgs
<1>13. CASE CppTakeSeq BY <1>13 DEF CppTakeSeq
<1>14. CASE Publish BY <1>14 DEF Publish
<1>15. CASE PyRaise BY <1>15 DEF PyRaise
<1>16. CASE Observe BY <1>16 DEF Observe
<1>17. CASE Collect BY <1>17 DEF Collect
<1>18. CASE GiveUp BY <1>18 DEF GiveUp
<1>19. CASE UNCHANGED vars BY <1>19 DEF vars
<1>20. CASE FrameStep BY <1>t, <1>20, FrameStepQuiet
<1> QED
  BY <1>1, <1>2, <1>3, <1>4, <1>5, <1>6, <1>7, <1>8, <1>9, <1>10, <1>11,
     <1>12, <1>13, <1>14, <1>15, <1>16, <1>17, <1>18, <1>19, <1>20
  DEF Next, Plugin, RunFrameUpdate, Poll, FrameStep, Tool

\* Every field of the block and every counter stays in its range, whatever the
\* tools do: BridgeCommand.cpp and both tools only store numbers they read.
THEOREM TypeCorrect == Spec => []TypeOK
  BY InitType, NextType, PTL DEF Spec

-----------------------------------------------------------------------------
(* The invariant, action by action.                                        *)

LEMMA InitIInv == Init => IInv
<1> SUFFICES ASSUME Init PROVE IInv
  OBVIOUS
<1> USE DEF Init, Blank
<1>1. TypeOK BY InitType
<1>2. NumbersPast /\ NumberFresh /\ Gate
  BY DEF NumbersPast, NumberFresh, Gate, Past, Writing, Waiting, GateOpen,
         Dispatching
<1>3. PayloadOwn /\ RunsOnce /\ ResultOwn /\ FateOpen
  BY DEF PayloadOwn, RunsOnce, ResultOwn, FateOpen, Writing, Waiting,
         Dispatching, NoResult
<1> QED BY <1>1, <1>2, <1>3 DEF IInv

LEMMA NextIInv == NoWrap /\ Patient /\ IInv /\ [Next]_vars => IInv'
<1> SUFFICES ASSUME NoWrap, Patient, IInv, [Next]_vars PROVE IInv'
  OBVIOUS
<1> USE ChannelAssumption DEF ChannelAssumption, NoWrap, Patient
<1>t. TypeOK' BY NextType DEF IInv
<1>1. CASE InitializeHead
  <2> USE <1>1 DEF InitializeHead, IInv, TypeOK, Calls, Writer, Blank, SeqNums, Codes,
        Results, NoResult, block, plugin, frames, tool, ghost, Writing, Waiting, Dispatching,
        NewRequest, HandledNow, Response, CppNextSeq, NumberFits, Answered
  <2>1. NumbersPast' BY DEF NumbersPast, Past
  <2>2. NumberFresh' BY DEF NumberFresh, NumbersPast, Past, Gate, GateOpen, RequestOpen
  <2>3. Gate' BY DEF Gate, GateOpen, RequestOpen, NumbersPast, NumberFresh, Past
  <2>4. PayloadOwn' BY DEF PayloadOwn, Gate
  <2>5. RunsOnce' BY DEF RunsOnce, PayloadOwn, Gate, GateOpen, RequestOpen, NumbersPast, NumberFresh, Past
  <2>6. ResultOwn' BY DEF ResultOwn, PayloadOwn, RunsOnce, Truthful, Gate, GateOpen, RequestOpen, NumberFresh
  <2>7. FateOpen' BY DEF FateOpen
  <2> QED BY <1>t, <2>1, <2>2, <2>3, <2>4, <2>5, <2>6, <2>7 DEF IInv
<1>2. CASE InitializeTail
  <2> USE <1>2 DEF InitializeTail, IInv, TypeOK, Calls, Writer, Blank, SeqNums, Codes,
        Results, NoResult, block, plugin, frames, tool, ghost, Writing, Waiting, Dispatching,
        NewRequest, HandledNow, Response, CppNextSeq, NumberFits, Answered
  <2>1. NumbersPast' BY DEF NumbersPast, Past
  <2>2. NumberFresh' BY DEF NumberFresh, NumbersPast, Past, Gate, GateOpen, RequestOpen
  <2>3. Gate' BY DEF Gate, GateOpen, RequestOpen, NumbersPast, NumberFresh, Past
  <2>4. PayloadOwn' BY DEF PayloadOwn, Gate
  <2>5. RunsOnce' BY DEF RunsOnce, PayloadOwn, Gate, GateOpen, RequestOpen, NumbersPast, NumberFresh, Past
  <2>6. ResultOwn' BY DEF ResultOwn, PayloadOwn, RunsOnce, Truthful, Gate, GateOpen, RequestOpen, NumberFresh
  <2>7. FateOpen' BY DEF FateOpen
  <2> QED BY <1>t, <2>1, <2>2, <2>3, <2>4, <2>5, <2>6, <2>7 DEF IInv
<1>3. CASE PollTake
  <2> USE <1>3 DEF PollTake, IInv, TypeOK, Calls, Writer, Blank, SeqNums, Codes,
        Results, NoResult, block, plugin, frames, tool, ghost, Writing, Waiting, Dispatching,
        NewRequest, HandledNow, Response, CppNextSeq, NumberFits, Answered
  <2>1. NumbersPast' BY DEF NumbersPast, Past
  <2>2. NumberFresh' BY DEF NumberFresh, NumbersPast, Past, Gate, GateOpen, RequestOpen
  <2>3. Gate' BY DEF Gate, GateOpen, RequestOpen, NumbersPast, NumberFresh, Past
  <2>4. PayloadOwn' BY DEF PayloadOwn, Gate
  <2>5. RunsOnce' BY DEF RunsOnce, PayloadOwn, Gate, GateOpen, RequestOpen, NumbersPast, NumberFresh, Past
  <2>6. ResultOwn' BY DEF ResultOwn, PayloadOwn, RunsOnce, Truthful, Gate, GateOpen, RequestOpen, NumberFresh
  <2>7. FateOpen' BY DEF FateOpen
  <2> QED BY <1>t, <2>1, <2>2, <2>3, <2>4, <2>5, <2>6, <2>7 DEF IInv
<1>4. CASE DispatchVerb
  <2> USE <1>4 DEF DispatchVerb, IInv, TypeOK, Calls, Writer, Blank, SeqNums, Codes,
        Results, NoResult, block, plugin, frames, tool, ghost, Writing, Waiting, Dispatching,
        NewRequest, HandledNow, Response, CppNextSeq, NumberFits, Answered
  <2>1. NumbersPast' BY DEF NumbersPast, Past
  <2>2. NumberFresh' BY DEF NumberFresh, NumbersPast, Past, Gate, GateOpen, RequestOpen
  <2>3. Gate' BY DEF Gate, GateOpen, RequestOpen, NumbersPast, NumberFresh, Past
  <2>4. PayloadOwn' BY DEF PayloadOwn, Gate
  <2>5. RunsOnce' BY DEF RunsOnce, PayloadOwn, Gate, GateOpen, RequestOpen, NumbersPast, NumberFresh, Past
  <2>6. ResultOwn' BY DEF ResultOwn, PayloadOwn, RunsOnce, Truthful, Gate, GateOpen, RequestOpen, NumberFresh
  <2>7. FateOpen' BY DEF FateOpen
  <2> QED BY <1>t, <2>1, <2>2, <2>3, <2>4, <2>5, <2>6, <2>7 DEF IInv
<1>5. CASE DispatchRun
  <2> USE <1>5 DEF DispatchRun, IInv, TypeOK, Calls, Writer, Blank, SeqNums, Codes,
        Results, NoResult, block, plugin, frames, tool, ghost, Writing, Waiting, Dispatching,
        NewRequest, HandledNow, Response, CppNextSeq, NumberFits, Answered
  <2>1. NumbersPast' BY DEF NumbersPast, Past
  <2>2. NumberFresh' BY DEF NumberFresh, NumbersPast, Past, Gate, GateOpen, RequestOpen
  <2>3. Gate' BY DEF Gate, GateOpen, RequestOpen, NumbersPast, NumberFresh, Past
  <2>4. PayloadOwn' BY DEF PayloadOwn, Gate
  <2>5. RunsOnce' BY DEF RunsOnce, PayloadOwn, Gate, GateOpen, RequestOpen, NumbersPast, NumberFresh, Past
  <2>6. ResultOwn' BY DEF ResultOwn, PayloadOwn, RunsOnce, Truthful, Gate, GateOpen, RequestOpen, NumberFresh
  <2>7. FateOpen' BY DEF FateOpen
  <2> QED BY <1>t, <2>1, <2>2, <2>3, <2>4, <2>5, <2>6, <2>7 DEF IInv
<1>6. CASE PollStatus
  <2> USE <1>6 DEF PollStatus, IInv, TypeOK, Calls, Writer, Blank, SeqNums, Codes,
        Results, NoResult, block, plugin, frames, tool, ghost, Writing, Waiting, Dispatching,
        NewRequest, HandledNow, Response, CppNextSeq, NumberFits, Answered
  <2>1. NumbersPast' BY DEF NumbersPast, Past
  <2>2. NumberFresh' BY DEF NumberFresh, NumbersPast, Past, Gate, GateOpen, RequestOpen
  <2>3. Gate' BY DEF Gate, GateOpen, RequestOpen, NumbersPast, NumberFresh, Past
  <2>4. PayloadOwn' BY DEF PayloadOwn, Gate
  <2>5. RunsOnce' BY DEF RunsOnce, PayloadOwn, Gate, GateOpen, RequestOpen, NumbersPast, NumberFresh, Past
  <2>6. ResultOwn' BY DEF ResultOwn, PayloadOwn, RunsOnce, Truthful, Gate, GateOpen, RequestOpen, NumberFresh
  <2>7. FateOpen' BY DEF FateOpen
  <2> QED BY <1>t, <2>1, <2>2, <2>3, <2>4, <2>5, <2>6, <2>7 DEF IInv
<1>7. CASE PollPublish
  <2> USE <1>7 DEF PollPublish, IInv, TypeOK, Calls, Writer, Blank, SeqNums, Codes,
        Results, NoResult, block, plugin, frames, tool, ghost, Writing, Waiting, Dispatching,
        NewRequest, HandledNow, Response, CppNextSeq, NumberFits, Answered
  <2>1. NumbersPast' BY DEF NumbersPast, NumberFresh, Gate, Past
  <2>2. NumberFresh' BY DEF NumberFresh, NumbersPast, Past, Gate, GateOpen, RequestOpen
  <2>3. Gate' BY DEF Gate, GateOpen, RequestOpen, NumbersPast, NumberFresh, Past
  <2>4. PayloadOwn' BY DEF PayloadOwn, Gate
  <2>5. RunsOnce' BY DEF RunsOnce, PayloadOwn, Gate, GateOpen, RequestOpen, NumbersPast, NumberFresh, Past
  <2>6. ResultOwn' BY DEF ResultOwn, PayloadOwn, RunsOnce, Truthful, Gate, GateOpen, RequestOpen, NumberFresh
  <2>7. FateOpen' BY DEF FateOpen
  <2> QED BY <1>t, <2>1, <2>2, <2>3, <2>4, <2>5, <2>6, <2>7 DEF IInv
<1>8. CASE Exit
  <2> USE <1>8 DEF Exit, IInv, TypeOK, Calls, Writer, Blank, SeqNums, Codes,
        Results, NoResult, block, plugin, frames, tool, ghost, Writing, Waiting, Dispatching,
        NewRequest, HandledNow, Response, CppNextSeq, NumberFits, Answered
  <2>1. NumbersPast' BY DEF NumbersPast, Past
  <2>2. NumberFresh' BY DEF NumberFresh, NumbersPast, Past, Gate, GateOpen, RequestOpen
  <2>3. Gate' BY DEF Gate, GateOpen, RequestOpen, NumbersPast, NumberFresh, Past
  <2>4. PayloadOwn' BY DEF PayloadOwn, Gate
  <2>5. RunsOnce' BY DEF RunsOnce, PayloadOwn, Gate, GateOpen, RequestOpen, NumbersPast, NumberFresh, Past
  <2>6. ResultOwn' BY DEF ResultOwn, PayloadOwn, RunsOnce, Truthful, Gate, GateOpen, RequestOpen, NumberFresh
  <2>7. FateOpen' BY DEF FateOpen
  <2> QED BY <1>t, <2>1, <2>2, <2>3, <2>4, <2>5, <2>6, <2>7 DEF IInv
<1>9. CASE PyBegin
  <2> USE <1>9 DEF PyBegin, Begin, IInv, TypeOK, Calls, Writer, Blank, SeqNums, Codes,
        Results, NoResult, block, plugin, frames, tool, ghost, Writing, Waiting, Dispatching,
        NewRequest, HandledNow, Response, CppNextSeq, NumberFits, Answered
  <2>1. NumbersPast' BY DEF NumbersPast, Past
  <2>2. NumberFresh' BY DEF NumberFresh, NumbersPast, Past, Gate, GateOpen, RequestOpen
  <2>3. Gate' BY DEF Gate, GateOpen, RequestOpen, NumbersPast, NumberFresh, Past
  <2>4. PayloadOwn' BY DEF PayloadOwn, Gate
  <2>5. RunsOnce' BY DEF RunsOnce, PayloadOwn, Gate, GateOpen, RequestOpen, NumbersPast, NumberFresh, Past
  <2>6. ResultOwn' BY DEF ResultOwn, PayloadOwn, RunsOnce, Truthful, Gate, GateOpen, RequestOpen, NumberFresh
  <2>7. FateOpen' BY DEF FateOpen
  <2> QED BY <1>t, <2>1, <2>2, <2>3, <2>4, <2>5, <2>6, <2>7 DEF IInv
<1>10. CASE CppBegin
  <2> USE <1>10 DEF CppBegin, Begin, IInv, TypeOK, Calls, Writer, Blank, SeqNums, Codes,
        Results, NoResult, block, plugin, frames, tool, ghost, Writing, Waiting, Dispatching,
        NewRequest, HandledNow, Response, CppNextSeq, NumberFits, Answered
  <2>1. NumbersPast' BY DEF NumbersPast, Past
  <2>2. NumberFresh' BY DEF NumberFresh, NumbersPast, Past, Gate, GateOpen, RequestOpen
  <2>3. Gate' BY DEF Gate, GateOpen, RequestOpen, NumbersPast, NumberFresh, Past
  <2>4. PayloadOwn' BY DEF PayloadOwn, Gate
  <2>5. RunsOnce' BY DEF RunsOnce, PayloadOwn, Gate, GateOpen, RequestOpen, NumbersPast, NumberFresh, Past
  <2>6. ResultOwn' BY DEF ResultOwn, PayloadOwn, RunsOnce, Truthful, Gate, GateOpen, RequestOpen, NumberFresh
  <2>7. FateOpen' BY DEF FateOpen
  <2> QED BY <1>t, <2>1, <2>2, <2>3, <2>4, <2>5, <2>6, <2>7 DEF IInv
<1>11. CASE WriteVerb
  <2> USE <1>11 DEF WriteVerb, IInv, TypeOK, Calls, Writer, Blank, SeqNums, Codes,
        Results, NoResult, block, plugin, frames, tool, ghost, Writing, Waiting, Dispatching,
        NewRequest, HandledNow, Response, CppNextSeq, NumberFits, Answered
  <2>1. NumbersPast' BY DEF NumbersPast, Past
  <2>2. NumberFresh' BY DEF NumberFresh, NumbersPast, Past, Gate, GateOpen, RequestOpen
  <2>3. Gate' BY DEF Gate, GateOpen, RequestOpen, NumbersPast, NumberFresh, Past
  <2>4. PayloadOwn' BY DEF PayloadOwn, Gate
  <2>5. RunsOnce' BY DEF RunsOnce, PayloadOwn, Gate, GateOpen, RequestOpen, NumbersPast, NumberFresh, Past
  <2>6. ResultOwn' BY DEF ResultOwn, PayloadOwn, RunsOnce, Truthful, Gate, GateOpen, RequestOpen, NumberFresh
  <2>7. FateOpen' BY DEF FateOpen
  <2> QED BY <1>t, <2>1, <2>2, <2>3, <2>4, <2>5, <2>6, <2>7 DEF IInv
<1>12. CASE WriteArgs
  <2> USE <1>12 DEF WriteArgs, IInv, TypeOK, Calls, Writer, Blank, SeqNums, Codes,
        Results, NoResult, block, plugin, frames, tool, ghost, Writing, Waiting, Dispatching,
        NewRequest, HandledNow, Response, CppNextSeq, NumberFits, Answered
  <2>1. NumbersPast' BY DEF NumbersPast, Past
  <2>2. NumberFresh' BY DEF NumberFresh, NumbersPast, Past, Gate, GateOpen, RequestOpen
  <2>3. Gate' BY DEF Gate, GateOpen, RequestOpen, NumbersPast, NumberFresh, Past
  <2>4. PayloadOwn' BY DEF PayloadOwn, Gate
  <2>5. RunsOnce' BY DEF RunsOnce, PayloadOwn, Gate, GateOpen, RequestOpen, NumbersPast, NumberFresh, Past
  <2>6. ResultOwn' BY DEF ResultOwn, PayloadOwn, RunsOnce, Truthful, Gate, GateOpen, RequestOpen, NumberFresh
  <2>7. FateOpen' BY DEF FateOpen
  <2> QED BY <1>t, <2>1, <2>2, <2>3, <2>4, <2>5, <2>6, <2>7 DEF IInv
<1>13. CASE CppTakeSeq
  <2> USE <1>13 DEF CppTakeSeq, IInv, TypeOK, Calls, Writer, Blank, SeqNums, Codes,
        Results, NoResult, block, plugin, frames, tool, ghost, Writing, Waiting, Dispatching,
        NewRequest, HandledNow, Response, CppNextSeq, NumberFits, Answered
  <2>1. NumbersPast' BY DEF NumbersPast, Past
  <2>2. NumberFresh' BY DEF NumberFresh, NumbersPast, Past, Gate, GateOpen, RequestOpen
  <2>3. Gate' BY DEF Gate, GateOpen, RequestOpen, NumbersPast, NumberFresh, Past
  <2>4. PayloadOwn' BY DEF PayloadOwn, Gate
  <2>5. RunsOnce' BY DEF RunsOnce, PayloadOwn, Gate, GateOpen, RequestOpen, NumbersPast, NumberFresh, Past
  <2>6. ResultOwn' BY DEF ResultOwn, PayloadOwn, RunsOnce, Truthful, Gate, GateOpen, RequestOpen, NumberFresh
  <2>7. FateOpen' BY DEF FateOpen
  <2> QED BY <1>t, <2>1, <2>2, <2>3, <2>4, <2>5, <2>6, <2>7 DEF IInv
<1>14. CASE Publish
  <2> USE <1>14 DEF Publish, IInv, TypeOK, Calls, Writer, Blank, SeqNums, Codes,
        Results, NoResult, block, plugin, frames, tool, ghost, Writing, Waiting, Dispatching,
        NewRequest, HandledNow, Response, CppNextSeq, NumberFits, Answered
  <2>1. NumbersPast' BY DEF NumbersPast, NumberFresh, Gate, Past
  <2>2. NumberFresh' BY DEF NumberFresh, NumbersPast, Past, Gate, GateOpen, RequestOpen
  <2>3. Gate' BY DEF Gate, GateOpen, RequestOpen, NumbersPast, NumberFresh, Past
  <2>4. PayloadOwn' BY DEF PayloadOwn, Gate
  <2>5. RunsOnce' BY DEF RunsOnce, PayloadOwn, Gate, GateOpen, RequestOpen, NumbersPast, NumberFresh, Past
  <2>6. ResultOwn' BY DEF ResultOwn, PayloadOwn, RunsOnce, Truthful, Gate, GateOpen, RequestOpen, NumberFresh
  <2>7. FateOpen' BY DEF FateOpen
  <2> QED BY <1>t, <2>1, <2>2, <2>3, <2>4, <2>5, <2>6, <2>7 DEF IInv
<1>15. CASE PyRaise
  <2> USE <1>15 DEF PyRaise, IInv, TypeOK, Calls, Writer, Blank, SeqNums, Codes,
        Results, NoResult, block, plugin, frames, tool, ghost, Writing, Waiting, Dispatching,
        NewRequest, HandledNow, Response, CppNextSeq, NumberFits, Answered
  <2>1. NumbersPast' BY DEF NumbersPast, Past
  <2>2. NumberFresh' BY DEF NumberFresh, NumbersPast, Past, Gate, GateOpen, RequestOpen
  <2>3. Gate' BY DEF Gate, GateOpen, RequestOpen, NumbersPast, NumberFresh, Past
  <2>4. PayloadOwn' BY DEF PayloadOwn, Gate
  <2>5. RunsOnce' BY DEF RunsOnce, PayloadOwn, Gate, GateOpen, RequestOpen, NumbersPast, NumberFresh, Past
  <2>6. ResultOwn' BY DEF ResultOwn, PayloadOwn, RunsOnce, Truthful, Gate, GateOpen, RequestOpen, NumberFresh
  <2>7. FateOpen' BY DEF FateOpen
  <2> QED BY <1>t, <2>1, <2>2, <2>3, <2>4, <2>5, <2>6, <2>7 DEF IInv
<1>16. CASE Observe
  <2> USE <1>16 DEF Observe, IInv, TypeOK, Calls, Writer, Blank, SeqNums, Codes,
        Results, NoResult, block, plugin, frames, tool, ghost, Writing, Waiting, Dispatching,
        NewRequest, HandledNow, Response, CppNextSeq, NumberFits, Answered
  <2>1. NumbersPast' BY DEF NumbersPast, Past
  <2>2. NumberFresh' BY DEF NumberFresh, NumbersPast, Past, Gate, GateOpen, RequestOpen
  <2>3. Gate' BY DEF Gate, GateOpen, RequestOpen, NumbersPast, NumberFresh, Past
  <2>4. PayloadOwn' BY DEF PayloadOwn, Gate
  <2>5. RunsOnce' BY DEF RunsOnce, PayloadOwn, Gate, GateOpen, RequestOpen, NumbersPast, NumberFresh, Past
  <2>6. ResultOwn' BY DEF ResultOwn, PayloadOwn, RunsOnce, Truthful, Gate, GateOpen, RequestOpen, NumberFresh
  <2>7. FateOpen' BY DEF FateOpen
  <2> QED BY <1>t, <2>1, <2>2, <2>3, <2>4, <2>5, <2>6, <2>7 DEF IInv
<1>17. CASE Collect
  <2> USE <1>17 DEF Collect, IInv, TypeOK, Calls, Writer, Blank, SeqNums, Codes,
        Results, NoResult, block, plugin, frames, tool, ghost, Writing, Waiting, Dispatching,
        NewRequest, HandledNow, Response, CppNextSeq, NumberFits, Answered
  <2>1. NumbersPast' BY DEF NumbersPast, Past
  <2>2. NumberFresh' BY DEF NumberFresh, NumbersPast, Past, Gate, GateOpen, RequestOpen
  <2>3. Gate' BY DEF Gate, GateOpen, RequestOpen, NumbersPast, NumberFresh, Past
  <2>4. PayloadOwn' BY DEF PayloadOwn, Gate
  <2>5. RunsOnce' BY DEF RunsOnce, PayloadOwn, Gate, GateOpen, RequestOpen, NumbersPast, NumberFresh, Past
  <2>6. ResultOwn' BY DEF ResultOwn, PayloadOwn, RunsOnce, Truthful, Gate, GateOpen, RequestOpen, NumberFresh
  <2>7. FateOpen' BY DEF FateOpen
  <2> QED BY <1>t, <2>1, <2>2, <2>3, <2>4, <2>5, <2>6, <2>7 DEF IInv
<1>18. CASE GiveUp
  <2> USE <1>18 DEF GiveUp, IInv, TypeOK, Calls, Writer, Blank, SeqNums, Codes,
        Results, NoResult, block, plugin, frames, tool, ghost, Writing, Waiting, Dispatching,
        NewRequest, HandledNow, Response, CppNextSeq, NumberFits, Answered
  <2>1. NumbersPast' BY DEF NumbersPast, Past
  <2>2. NumberFresh' BY DEF NumberFresh, NumbersPast, Past, Gate, GateOpen, RequestOpen
  <2>3. Gate' BY DEF Gate, GateOpen, RequestOpen, NumbersPast, NumberFresh, Past
  <2>4. PayloadOwn' BY DEF PayloadOwn, Gate
  <2>5. RunsOnce' BY DEF RunsOnce, PayloadOwn, Gate, GateOpen, RequestOpen, NumbersPast, NumberFresh, Past
  <2>6. ResultOwn' BY DEF ResultOwn, PayloadOwn, RunsOnce, Truthful, Gate, GateOpen, RequestOpen, NumberFresh
  <2>7. FateOpen' BY DEF FateOpen
  <2> QED BY <1>t, <2>1, <2>2, <2>3, <2>4, <2>5, <2>6, <2>7 DEF IInv
<1>19. CASE UNCHANGED vars
  BY <1>t, <1>19 DEF vars, block, plugin, frames, tool, ghost, IInv, NumbersPast, NumberFresh, Gate,
    PayloadOwn, RunsOnce, ResultOwn, FateOpen, Past, Writing, Waiting, GateOpen,
    RequestOpen, Dispatching, Truthful
<1>20. CASE FrameStep
  BY <1>t, <1>20, FrameStepQuiet DEF block, tool, ghost, IInv, NumbersPast, NumberFresh, Gate,
    PayloadOwn, RunsOnce, ResultOwn, FateOpen, Past, Writing, Waiting, GateOpen,
    RequestOpen, Dispatching, Truthful
<1> QED
  BY <1>1, <1>2, <1>3, <1>4, <1>5, <1>6, <1>7, <1>8, <1>9, <1>10, <1>11, <1>12, <1>13,
     <1>14, <1>15, <1>16, <1>17, <1>18, <1>19, <1>20
  DEF Next, Plugin, RunFrameUpdate, Poll, FrameStep, Tool

LEMMA Invariance == ASSUME NoWrap, Patient PROVE Spec => []IInv
  BY InitIInv, NextIInv, PTL DEF Spec

-----------------------------------------------------------------------------
(* The safety properties.                                                  *)

\* No verb runs twice for one call, across any number of game restarts
\* (Poll, m_lastHandled, the zeroing in Initialize).
THEOREM CallsRunOnce == ASSUME NoWrap, Patient PROVE Spec => []AtMostOnce
<1>1. IInv => AtMostOnce BY DEF IInv, RunsOnce, AtMostOnce
<1> QED BY <1>1, Invariance, PTL

\* The answer a patient tool takes is the answer to its own call.
THEOREM AnswersAreOwn == ASSUME NoWrap, Patient PROVE Spec => []AnswerIsOwn
<1>1. IInv => AnswerIsOwn
  <2> SUFFICES ASSUME IInv, cpc = "collect" PROVE AnswerIsOwn
    BY DEF AnswerIsOwn
  <2>1. call \in Calls
    BY DEF IInv, TypeOK, Writer, Blank
  <2>2. runs[call] # 0 => runs[call] > 0
    BY <2>1 DEF IInv, TypeOK
  <2> QED
    BY <2>1, <2>2 DEF AnswerIsOwn, IInv, ResultOwn, Truthful, Waiting
<1> QED BY <1>1, Invariance, PTL

\* No patient tool rewrites a request while the plugin works on it.
THEOREM RequestsAreStable == ASSUME NoWrap, Patient PROVE Spec => PayloadStable
<1>1. IInv /\ [Next]_vars => [Dispatching => UNCHANGED <<requestSeq, verb, args>>]_vars
  <2> SUFFICES ASSUME IInv, Next, Dispatching
               PROVE  UNCHANGED <<requestSeq, verb, args>>
    OBVIOUS
  <2> USE DEF block, Dispatching
  <2>1. cpc = "wait" BY DEF IInv, Gate
  <2>2. CASE Plugin
    BY <2>2 DEF Plugin, RunFrameUpdate, Poll, InitializeHead, InitializeTail, PollTake,
       PollNothing, DispatchVerb, DispatchRun, PollStatus, PollPublish, FinishUpdate, Fault,
       Revive, Exit
  <2>3. CASE Tool
    BY <2>1, <2>3 DEF Tool, PyBegin, CppBegin, Begin, WriteVerb, WriteArgs,
       CppTakeSeq, Publish, PyRaise, Observe, Collect, GiveUp
  <2> QED BY <2>2, <2>3 DEF Next
<1> QED BY <1>1, Invariance, PTL DEF Spec, PayloadStable

-----------------------------------------------------------------------------
(* The channel implements the remote procedure call.                       *)

\* The phase of the call in progress is read off cpc and runs; every other
\* call is over or not begun.
LEMMA PhaseOfCall ==
  ASSUME IInv, Waiting
  PROVE  /\ call \in Calls
         /\ RpcPhase[call] = IF runs[call] = 0 THEN "sent" ELSE "executed"
         /\ \A k \in Calls : k # call => ~Rpc!InFlight(k)
  BY DEF IInv, TypeOK, Writer, Blank, Calls, Waiting, FateOpen, RpcPhase, Rpc!InFlight

LEMMA NoneInFlight ==
  ASSUME IInv, ~Waiting
  PROVE  /\ RpcPhase = [k \in Calls |-> IF fate[k] # "open" THEN fate[k] ELSE "new"]
         /\ \A k \in Calls : ~Rpc!InFlight(k)
  BY DEF IInv, TypeOK, Waiting, RpcPhase, Rpc!InFlight

LEMMA InitRpc == Init => Rpc!Init
  BY DEF Init, Rpc!Init, RpcPhase, Calls

LEMMA NextRpc == IInv /\ IInv' /\ [Next]_vars => [Rpc!Next]_RpcPhase
<1> SUFFICES ASSUME IInv, IInv', [Next]_vars
             PROVE  Rpc!Next \/ UNCHANGED RpcPhase
  OBVIOUS
<1> USE DEF block, plugin, frames, tool, ghost
<1>1. CASE Publish
  <2>1. ~Waiting /\ Waiting' /\ call' = call /\ runs' = runs /\ fate' = fate
    BY <1>1 DEF Publish, Waiting
  <2>2. call \in Calls /\ runs[call] = 0 /\ fate[call] = "open"
    BY <1>1 DEF Publish, IInv, TypeOK, Writer, Blank, RunsOnce, Writing, FateOpen
  <2>3. RpcPhase[call] = "new"
    BY <2>1, <2>2, NoneInFlight
  <2>4. RpcPhase' = [RpcPhase EXCEPT ![call] = "sent"]
    BY <2>1, <2>2, NoneInFlight DEF RpcPhase, Waiting
  <2>5. Rpc!Send(call)
    BY <2>1, <2>3, <2>4, NoneInFlight DEF Rpc!Send, Rpc!Move
  <2> QED BY <2>2, <2>5 DEF Rpc!Next
<1>2. CASE DispatchRun
  <2>1. Waiting /\ Waiting' /\ call' = call /\ fate' = fate
    BY <1>2 DEF DispatchRun, IInv, Gate, Dispatching, Waiting
  <2>2. call \in Calls /\ RpcPhase[call] = IF runs[call] = 0 THEN "sent" ELSE "executed"
    BY <2>1, PhaseOfCall
  <2>3. CASE pverb = Blank
    BY <1>2, <2>1, <2>3 DEF DispatchRun, RpcPhase, Waiting
  <2>4. CASE pverb # Blank
    <3>1. pverb = call
      BY <1>2, <2>4 DEF DispatchRun, IInv, PayloadOwn
    <3>2. runs[call] = 0
      BY <1>2 DEF DispatchRun, IInv, Gate, Dispatching, GateOpen, RequestOpen,
         RunsOnce, TypeOK, SeqNums
    <3>3. runs' = [runs EXCEPT ![call] = 1]
      BY <1>2, <2>2, <2>4, <3>1, <3>2 DEF DispatchRun, IInv, TypeOK
    <3>4. fate[call] = "open"
      BY <2>1 DEF IInv, FateOpen, Waiting
    <3>5. runs'[call] # 0 /\ \A k \in Calls : k # call => runs'[k] = runs[k]
      BY <2>2, <3>3 DEF IInv, TypeOK
    <3>6. RpcPhase' = [RpcPhase EXCEPT ![call] = "executed"]
      BY <2>1, <2>2, <3>4, <3>5 DEF RpcPhase, Waiting
    <3> QED BY <2>2, <3>2, <3>6 DEF Rpc!Next, Rpc!Execute, Rpc!Move
  <2> QED BY <2>3, <2>4
<1>3. CASE Collect
  <2>1. Waiting /\ ~Waiting' /\ call' = call /\ runs' = runs
    BY <1>3 DEF Collect, Waiting
  <2>2. call \in Calls /\ RpcPhase[call] = IF runs[call] = 0 THEN "sent" ELSE "executed"
    BY <2>1, PhaseOfCall
  <2>3. RpcPhase' = [RpcPhase EXCEPT ![call] = fate'[call]]
    BY <1>3, <2>1, <2>2 DEF Collect, RpcPhase, Waiting, IInv, TypeOK
  <2>4. CASE responseSeq # cseq
    BY <1>3, <2>2, <2>3, <2>4 DEF Collect, IInv, TypeOK, Rpc!Next, Rpc!Lose, Rpc!Move
  <2>5. CASE responseSeq = cseq /\ status = "UnknownVerb"
    <3>1. runs[call] = 0 BY <2>1, <2>5 DEF IInv, ResultOwn, Truthful
    <3> QED
      BY <1>3, <2>2, <2>3, <2>5, <3>1
      DEF Collect, IInv, TypeOK, Rpc!Next, Rpc!Refuse, Rpc!Move
  <2>6. CASE responseSeq = cseq /\ status # "UnknownVerb"
    <3>1. runs[call] # 0 BY <2>1, <2>6 DEF IInv, ResultOwn, Truthful
    <3> QED
      BY <1>3, <2>2, <2>3, <2>6, <3>1
      DEF Collect, IInv, TypeOK, Rpc!Next, Rpc!Answer, Rpc!Move
  <2> QED BY <2>4, <2>5, <2>6
<1>4. CASE GiveUp
  <2>1. Waiting /\ ~Waiting' /\ call' = call /\ runs' = runs
    BY <1>4 DEF GiveUp, Waiting
  <2>2. call \in Calls /\ RpcPhase[call] = IF runs[call] = 0 THEN "sent" ELSE "executed"
    BY <2>1, PhaseOfCall
  <2>3. RpcPhase' = [RpcPhase EXCEPT ![call] = "lost"]
    BY <1>4, <2>1, <2>2 DEF GiveUp, RpcPhase, Waiting, IInv, TypeOK
  <2> QED BY <2>2, <2>3 DEF Rpc!Next, Rpc!Lose, Rpc!Move
<1>5. CASE PyBegin \/ CppBegin
  <2>1. ~Waiting /\ ~Waiting' /\ fate' = fate
    BY <1>5 DEF PyBegin, CppBegin, Begin, Waiting
  <2> QED BY <2>1 DEF RpcPhase, Waiting
<1>6. CASE WriteVerb \/ WriteArgs \/ CppTakeSeq \/ PyRaise
  <2>1. ~Waiting /\ ~Waiting' /\ fate' = fate
    BY <1>6 DEF WriteVerb, WriteArgs, CppTakeSeq, PyRaise, Waiting
  <2> QED BY <2>1 DEF RpcPhase, Waiting
<1>7. CASE Observe
  BY <1>7 DEF Observe, RpcPhase
<1>8. CASE InitializeHead \/ InitializeTail \/ Exit
  BY <1>8 DEF InitializeHead, InitializeTail, Exit, RpcPhase
<1>9. CASE PollTake \/ DispatchVerb \/ PollStatus \/ PollPublish
  BY <1>9 DEF PollTake, DispatchVerb, PollStatus, PollPublish, RpcPhase
<1>10. CASE UNCHANGED vars
  BY <1>10 DEF vars, RpcPhase
<1>11. CASE FrameStep
  BY <1>11, FrameStepQuiet DEF RpcPhase
<1> QED
  BY <1>1, <1>2, <1>3, <1>4, <1>5, <1>6, <1>7, <1>8, <1>9, <1>10, <1>11
  DEF Next, Plugin, RunFrameUpdate, Poll, FrameStep, Tool

\* Seen through RpcPhase, BridgeCommand with patient tools is a remote procedure
\* call: sent when requestSeq is published, executed by Dispatch, answered or
\* refused when the tool reads the block, lost with the game process.
THEOREM ImplementsRpc == ASSUME NoWrap, Patient PROVE Spec => RpcSpec
<1>1. Init => Rpc!Init BY InitRpc
<1>2. IInv /\ IInv' /\ [Next]_vars => [Rpc!Next]_RpcPhase BY NextRpc
<1> QED BY <1>1, <1>2, Invariance, PTL DEF Spec, RpcSpec, Rpc!Spec

-----------------------------------------------------------------------------
(* The gates, whatever the tools do.                                       *)

GateInv ==
  /\ ppc = "init" => responseSeq = 0
  /\ ppc \in {"init", "idle", "tail", "verb", "run", "status"} => lastHandled = responseSeq
  /\ ppc = "publish" => lastHandled = preq

LEMMA NextGate == TypeOK /\ GateInv /\ [Next]_vars => GateInv'
<1> SUFFICES ASSUME TypeOK, GateInv, [Next]_vars PROVE GateInv'
  OBVIOUS
<1> USE DEF GateInv, TypeOK, block, plugin, frames, tool
<1>1. CASE Plugin
  BY <1>1 DEF Plugin, RunFrameUpdate, Poll, InitializeHead, InitializeTail, PollTake,
     PollNothing, DispatchVerb, DispatchRun, PollStatus, HandledNow, PollPublish, Response,
     FinishUpdate, Fault, Revive, Exit
<1>2. CASE Tool
  BY <1>2 DEF Tool, PyBegin, CppBegin, Begin, WriteVerb, WriteArgs, CppTakeSeq,
     Publish, PyRaise, Observe, Collect, GiveUp
<1>3. CASE UNCHANGED vars BY <1>3 DEF vars
<1> QED BY <1>1, <1>2, <1>3 DEF Next

LEMMA GateInvariance == Spec => []GateInv
<1>1. Init => GateInv BY DEF Init, GateInv
<1> QED BY <1>1, InitType, NextType, NextGate, PTL DEF Spec

\* Between polls m_lastHandled, the gate of Poll, equals responseSeq, the gate of
\* the protocol, whatever the tools do and however often the game restarts.
THEOREM GatesAgree == Spec => []GateMatchesProtocol
<1>1. GateInv => GateMatchesProtocol BY DEF GateInv, GateMatchesProtocol
<1> QED BY <1>1, GateInvariance, PTL

-----------------------------------------------------------------------------
(* sb_command_client.py, giving up whenever it likes.                      *)

\* No number is ahead of the request, and a call takes the next one.
PyNumbers ==
  /\ responseSeq <= requestSeq /\ lastHandled <= requestSeq
  /\ Dispatching => preq <= requestSeq
  /\ cpc \in {"verb", "args", "publish"} => requestSeq < cseq
  /\ Waiting => 0 < cseq /\ requestSeq <= cseq
  /\ cpc # "seq" /\ kind = "py"

\* Once a call has its answer nothing is taken any more, also by the next game.
PyQuiet ==
  /\ Waiting /\ responseSeq = cseq => ~Dispatching
  /\ cpc = "collect" => ~Dispatching /\ (ppc \in {"init", "idle", "tail"} => requestSeq = lastHandled)

\* What a call wrote is its own, or was zeroed since.
PyPayload ==
  /\ cpc \in {"args", "publish", "wait", "collect"} => verb \in {call, Blank}
  /\ cpc \in {"publish", "wait", "collect"} => args \in {call, Blank}

\* The plugin works on the number that the tool waits for; what it still does for
\* one that was given up does not count.
Serving == Waiting /\ Dispatching /\ preq = cseq
OwnResult == result.verb \in {call, Blank} /\ result.args \in {call, Blank}
Ran(code) == code = "OK" => result.verb = call /\ runs[call] > 0

PyResult ==
  /\ Serving /\ ppc # "verb" => pverb \in {call, Blank} /\ OwnResult
  /\ Serving /\ ppc = "status" => Ran(pstatus)
  /\ Serving /\ ppc = "publish" => Ran(status)
  /\ Waiting /\ responseSeq = cseq => OwnResult /\ Ran(status)
  /\ cpc = "collect" => OwnResult

PyInv == TypeOK /\ GateInv /\ PyNumbers /\ PyQuiet /\ PyPayload /\ PyResult

\* Only sb_command_client.py is in use.
PyOnly == Kinds \subseteq {"py"}

LEMMA InitPy == PyOnly /\ Init => PyInv
<1> SUFFICES ASSUME PyOnly, Init PROVE PyInv
  OBVIOUS
<1>1. TypeOK BY InitType
<1>2. kind = "py" BY DEF PyOnly, Init
<1> QED
  BY <1>1, <1>2 DEF Init, Blank, PyInv, GateInv, PyNumbers, PyQuiet, PyPayload, PyResult,
     Serving, Waiting, Dispatching

LEMMA NextPy == PyOnly /\ PyInv /\ [Next]_vars => PyInv'
<1> SUFFICES ASSUME PyOnly, PyInv, [Next]_vars PROVE PyInv'
  OBVIOUS
<1> USE ChannelAssumption DEF ChannelAssumption, PyOnly
<1>t. TypeOK' /\ GateInv' BY NextType, NextGate DEF PyInv
<1>1. CASE InitializeHead
  <2> USE <1>1 DEF InitializeHead, PyInv, TypeOK, GateInv, Calls, Writer, Blank, SeqNums,
        Codes, Results, NoResult, block, plugin, frames, tool, ghost, Waiting, Dispatching,
        NewRequest, HandledNow, Response, NumberFits, Answered
  <2>1. PyNumbers' BY DEF PyNumbers
  <2>2. PyQuiet' BY DEF PyQuiet, PyNumbers
  <2>3. PyPayload' BY DEF PyPayload, PyNumbers
  <2>4. PyResult' BY DEF PyResult, PyQuiet, PyPayload, PyNumbers, Serving, OwnResult, Ran
  <2> QED BY <1>t, <2>1, <2>2, <2>3, <2>4 DEF PyInv
<1>2. CASE InitializeTail
  <2> USE <1>2 DEF InitializeTail, PyInv, TypeOK, GateInv, Calls, Writer, Blank, SeqNums,
        Codes, Results, NoResult, block, plugin, frames, tool, ghost, Waiting, Dispatching,
        NewRequest, HandledNow, Response, NumberFits, Answered
  <2>1. PyNumbers' BY DEF PyNumbers
  <2>2. PyQuiet' BY DEF PyQuiet, PyNumbers
  <2>3. PyPayload' BY DEF PyPayload, PyNumbers
  <2>4. PyResult' BY DEF PyResult, PyQuiet, PyPayload, PyNumbers, Serving, OwnResult, Ran
  <2> QED BY <1>t, <2>1, <2>2, <2>3, <2>4 DEF PyInv
<1>3. CASE PollTake
  <2> USE <1>3 DEF PollTake, PyInv, TypeOK, GateInv, Calls, Writer, Blank, SeqNums,
        Codes, Results, NoResult, block, plugin, frames, tool, ghost, Waiting, Dispatching,
        NewRequest, HandledNow, Response, NumberFits, Answered
  <2>1. PyNumbers' BY DEF PyNumbers
  <2>2. PyQuiet' BY DEF PyQuiet, PyNumbers
  <2>3. PyPayload' BY DEF PyPayload, PyNumbers
  <2>4. PyResult' BY DEF PyResult, PyQuiet, PyPayload, PyNumbers, Serving, OwnResult, Ran
  <2> QED BY <1>t, <2>1, <2>2, <2>3, <2>4 DEF PyInv
<1>4. CASE DispatchVerb
  <2> USE <1>4 DEF DispatchVerb, PyInv, TypeOK, GateInv, Calls, Writer, Blank, SeqNums,
        Codes, Results, NoResult, block, plugin, frames, tool, ghost, Waiting, Dispatching,
        NewRequest, HandledNow, Response, NumberFits, Answered
  <2>1. PyNumbers' BY DEF PyNumbers
  <2>2. PyQuiet' BY DEF PyQuiet, PyNumbers
  <2>3. PyPayload' BY DEF PyPayload, PyNumbers
  <2>4. PyResult' BY DEF PyResult, PyQuiet, PyPayload, PyNumbers, Serving, OwnResult, Ran
  <2> QED BY <1>t, <2>1, <2>2, <2>3, <2>4 DEF PyInv
<1>5. CASE DispatchRun
  <2> USE <1>5 DEF DispatchRun, PyInv, TypeOK, GateInv, Calls, Writer, Blank, SeqNums,
        Codes, Results, NoResult, block, plugin, frames, tool, ghost, Waiting, Dispatching,
        NewRequest, HandledNow, Response, NumberFits, Answered
  <2>1. PyNumbers' BY DEF PyNumbers
  <2>2. PyQuiet' BY DEF PyQuiet, PyNumbers
  <2>3. PyPayload' BY DEF PyPayload, PyNumbers
  <2>4. PyResult' BY DEF PyResult, PyQuiet, PyPayload, PyNumbers, Serving, OwnResult, Ran
  <2> QED BY <1>t, <2>1, <2>2, <2>3, <2>4 DEF PyInv
<1>6. CASE PollStatus
  <2> USE <1>6 DEF PollStatus, PyInv, TypeOK, GateInv, Calls, Writer, Blank, SeqNums,
        Codes, Results, NoResult, block, plugin, frames, tool, ghost, Waiting, Dispatching,
        NewRequest, HandledNow, Response, NumberFits, Answered
  <2>1. PyNumbers' BY DEF PyNumbers
  <2>2. PyQuiet' BY DEF PyQuiet, PyNumbers
  <2>3. PyPayload' BY DEF PyPayload, PyNumbers
  <2>4. PyResult' BY DEF PyResult, PyQuiet, PyPayload, PyNumbers, Serving, OwnResult, Ran
  <2> QED BY <1>t, <2>1, <2>2, <2>3, <2>4 DEF PyInv
<1>7. CASE PollPublish
  <2> USE <1>7 DEF PollPublish, PyInv, TypeOK, GateInv, Calls, Writer, Blank, SeqNums,
        Codes, Results, NoResult, block, plugin, frames, tool, ghost, Waiting, Dispatching,
        NewRequest, HandledNow, Response, NumberFits, Answered
  <2>1. PyNumbers' BY DEF PyNumbers
  <2>2. PyQuiet' BY DEF PyQuiet, PyNumbers
  <2>3. PyPayload' BY DEF PyPayload, PyNumbers
  <2>4. PyResult' BY DEF PyResult, PyQuiet, PyPayload, PyNumbers, Serving, OwnResult, Ran
  <2> QED BY <1>t, <2>1, <2>2, <2>3, <2>4 DEF PyInv
<1>8. CASE Exit
  <2> USE <1>8 DEF Exit, PyInv, TypeOK, GateInv, Calls, Writer, Blank, SeqNums,
        Codes, Results, NoResult, block, plugin, frames, tool, ghost, Waiting, Dispatching,
        NewRequest, HandledNow, Response, NumberFits, Answered
  <2>1. PyNumbers' BY DEF PyNumbers
  <2>2. PyQuiet' BY DEF PyQuiet, PyNumbers
  <2>3. PyPayload' BY DEF PyPayload, PyNumbers
  <2>4. PyResult' BY DEF PyResult, PyQuiet, PyPayload, PyNumbers, Serving, OwnResult, Ran
  <2> QED BY <1>t, <2>1, <2>2, <2>3, <2>4 DEF PyInv
<1>9. CASE PyBegin
  <2> USE <1>9 DEF PyBegin, Begin, PyInv, TypeOK, GateInv, Calls, Writer, Blank, SeqNums,
        Codes, Results, NoResult, block, plugin, frames, tool, ghost, Waiting, Dispatching,
        NewRequest, HandledNow, Response, NumberFits, Answered
  <2>1. PyNumbers' BY DEF PyNumbers
  <2>2. PyQuiet' BY DEF PyQuiet, PyNumbers
  <2>3. PyPayload' BY DEF PyPayload, PyNumbers
  <2>4. PyResult' BY DEF PyResult, PyQuiet, PyPayload, PyNumbers, Serving, OwnResult, Ran
  <2> QED BY <1>t, <2>1, <2>2, <2>3, <2>4 DEF PyInv
<1>10. CASE CppBegin
  BY <1>10 DEF CppBegin
<1>11. CASE WriteVerb
  <2> USE <1>11 DEF WriteVerb, PyInv, TypeOK, GateInv, Calls, Writer, Blank, SeqNums,
        Codes, Results, NoResult, block, plugin, frames, tool, ghost, Waiting, Dispatching,
        NewRequest, HandledNow, Response, NumberFits, Answered
  <2>1. PyNumbers' BY DEF PyNumbers
  <2>2. PyQuiet' BY DEF PyQuiet, PyNumbers
  <2>3. PyPayload' BY DEF PyPayload, PyNumbers
  <2>4. PyResult' BY DEF PyResult, PyQuiet, PyPayload, PyNumbers, Serving, OwnResult, Ran
  <2> QED BY <1>t, <2>1, <2>2, <2>3, <2>4 DEF PyInv
<1>12. CASE WriteArgs
  <2> USE <1>12 DEF WriteArgs, PyInv, TypeOK, GateInv, Calls, Writer, Blank, SeqNums,
        Codes, Results, NoResult, block, plugin, frames, tool, ghost, Waiting, Dispatching,
        NewRequest, HandledNow, Response, NumberFits, Answered
  <2>1. PyNumbers' BY DEF PyNumbers
  <2>2. PyQuiet' BY DEF PyQuiet, PyNumbers
  <2>3. PyPayload' BY DEF PyPayload, PyNumbers
  <2>4. PyResult' BY DEF PyResult, PyQuiet, PyPayload, PyNumbers, Serving, OwnResult, Ran
  <2> QED BY <1>t, <2>1, <2>2, <2>3, <2>4 DEF PyInv
<1>13. CASE CppTakeSeq
  <2> USE <1>13 DEF CppTakeSeq, PyInv, TypeOK, GateInv, Calls, Writer, Blank, SeqNums,
        Codes, Results, NoResult, block, plugin, frames, tool, ghost, Waiting, Dispatching,
        NewRequest, HandledNow, Response, NumberFits, Answered
  <2>1. PyNumbers' BY DEF PyNumbers
  <2>2. PyQuiet' BY DEF PyQuiet, PyNumbers
  <2>3. PyPayload' BY DEF PyPayload, PyNumbers
  <2>4. PyResult' BY DEF PyResult, PyQuiet, PyPayload, PyNumbers, Serving, OwnResult, Ran
  <2> QED BY <1>t, <2>1, <2>2, <2>3, <2>4 DEF PyInv
<1>14. CASE Publish
  <2> USE <1>14 DEF Publish, PyInv, TypeOK, GateInv, Calls, Writer, Blank, SeqNums,
        Codes, Results, NoResult, block, plugin, frames, tool, ghost, Waiting, Dispatching,
        NewRequest, HandledNow, Response, NumberFits, Answered
  <2>1. PyNumbers' BY DEF PyNumbers
  <2>2. PyQuiet' BY DEF PyQuiet, PyNumbers
  <2>3. PyPayload' BY DEF PyPayload, PyNumbers
  <2>4. PyResult' BY DEF PyResult, PyQuiet, PyPayload, PyNumbers, Serving, OwnResult, Ran
  <2> QED BY <1>t, <2>1, <2>2, <2>3, <2>4 DEF PyInv
<1>15. CASE PyRaise
  <2> USE <1>15 DEF PyRaise, PyInv, TypeOK, GateInv, Calls, Writer, Blank, SeqNums,
        Codes, Results, NoResult, block, plugin, frames, tool, ghost, Waiting, Dispatching,
        NewRequest, HandledNow, Response, NumberFits, Answered
  <2>1. PyNumbers' BY DEF PyNumbers
  <2>2. PyQuiet' BY DEF PyQuiet, PyNumbers
  <2>3. PyPayload' BY DEF PyPayload, PyNumbers
  <2>4. PyResult' BY DEF PyResult, PyQuiet, PyPayload, PyNumbers, Serving, OwnResult, Ran
  <2> QED BY <1>t, <2>1, <2>2, <2>3, <2>4 DEF PyInv
<1>16. CASE Observe
  <2> USE <1>16 DEF Observe, PyInv, TypeOK, GateInv, Calls, Writer, Blank, SeqNums,
        Codes, Results, NoResult, block, plugin, frames, tool, ghost, Waiting, Dispatching,
        NewRequest, HandledNow, Response, NumberFits, Answered
  <2>1. PyNumbers' BY DEF PyNumbers
  <2>2. PyQuiet' BY DEF PyQuiet, PyNumbers
  <2>3. PyPayload' BY DEF PyPayload, PyNumbers
  <2>4. PyResult' BY DEF PyResult, PyQuiet, PyPayload, PyNumbers, Serving, OwnResult, Ran
  <2> QED BY <1>t, <2>1, <2>2, <2>3, <2>4 DEF PyInv
<1>17. CASE Collect
  <2> USE <1>17 DEF Collect, PyInv, TypeOK, GateInv, Calls, Writer, Blank, SeqNums,
        Codes, Results, NoResult, block, plugin, frames, tool, ghost, Waiting, Dispatching,
        NewRequest, HandledNow, Response, NumberFits, Answered
  <2>1. PyNumbers' BY DEF PyNumbers
  <2>2. PyQuiet' BY DEF PyQuiet, PyNumbers
  <2>3. PyPayload' BY DEF PyPayload, PyNumbers
  <2>4. PyResult' BY DEF PyResult, PyQuiet, PyPayload, PyNumbers, Serving, OwnResult, Ran
  <2> QED BY <1>t, <2>1, <2>2, <2>3, <2>4 DEF PyInv
<1>18. CASE GiveUp
  <2> USE <1>18 DEF GiveUp, PyInv, TypeOK, GateInv, Calls, Writer, Blank, SeqNums,
        Codes, Results, NoResult, block, plugin, frames, tool, ghost, Waiting, Dispatching,
        NewRequest, HandledNow, Response, NumberFits, Answered
  <2>1. PyNumbers' BY DEF PyNumbers
  <2>2. PyQuiet' BY DEF PyQuiet, PyNumbers
  <2>3. PyPayload' BY DEF PyPayload, PyNumbers
  <2>4. PyResult' BY DEF PyResult, PyQuiet, PyPayload, PyNumbers, Serving, OwnResult, Ran
  <2> QED BY <1>t, <2>1, <2>2, <2>3, <2>4 DEF PyInv
<1>19. CASE UNCHANGED vars
  BY <1>t, <1>19 DEF vars, block, plugin, frames, tool, ghost, PyInv, PyNumbers, PyQuiet,
    PyPayload, PyResult, Serving, OwnResult, Ran, Waiting, Dispatching
<1>20. CASE FrameStep
  BY <1>t, <1>20, FrameStepQuiet DEF block, tool, ghost, PyInv, PyNumbers, PyQuiet,
    PyPayload, PyResult, Serving, OwnResult, Ran, Waiting, Dispatching
<1> QED
  BY <1>1, <1>2, <1>3, <1>4, <1>5, <1>6, <1>7, <1>8, <1>9, <1>10,
     <1>11, <1>12, <1>13, <1>14, <1>15, <1>16, <1>17, <1>18, <1>19, <1>20
  DEF Next, Plugin, RunFrameUpdate, Poll, FrameStep, Tool

LEMMA PyInvariance == ASSUME PyOnly PROVE Spec => []PyInv
  BY InitPy, NextPy, PTL DEF Spec

\* sb_command_client.py may give up on any call at any moment, and the game may
\* end and start again: what a call that saw its own number in responseSeq reads
\* is still the answer to that call, because a late answer never carries a
\* number that a later call has taken.
THEOREM LateAnswersAreOwn == ASSUME PyOnly PROVE Spec => []AnswerIsOwn
<1>1. PyInv => AnswerIsOwn
  BY DEF PyInv, PyResult, AnswerIsOwn, OwnResult, Ran, Waiting
<1> QED BY <1>1, PyInvariance, PTL

=============================================================================
