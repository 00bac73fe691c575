---------------------------- MODULE CommandChannel ----------------------------
(***************************************************************************)
(* The command mailbox between an external tool and the plugin             *)
(* (SB_CommandLayout.h): one shared block, a request sequence number the   *)
(* tool writes last, a response sequence number the plugin writes last.    *)
(* The plugin side is BridgeCommand (core/BridgeCommand.cpp), polled once  *)
(* in a frame update (core/main.cpp) that does not fault before it gets    *)
(* there, and no more once a run of faults has disabled the updates.  The  *)
(* tool side is sb_command_client.py ("py", which numbers a call           *)
(* requestSeq + 1 before it fills the block) and SkyrimBridgeClient.h      *)
(* ("cpp", which numbers it responseSeq + 1 after it filled the block).    *)
(* Both sides are in different processes and no lock is shared: every      *)
(* field access that the other side could observe is a step of its own.    *)
(*                                                                         *)
(* Tools run one at a time, as sb_command_client.py:6 requires, so there   *)
(* is one client process; it picks the kind of tool anew for each call.    *)
(* verb and args hold the number of the call that wrote them.              *)
(***************************************************************************)
EXTENDS Naturals

CONSTANTS
  Kinds,     \* kinds of tool in use, a subset of {"py", "cpp"}
  MaxCalls,  \* bound: calls the tools make in a behaviour
  SeqMod,    \* sequence numbers are 0 .. SeqMod-1 (2^32 in the program)
  MaxStarts, \* bound: game processes started, one after the other
  MaxFaults, \* 5 in the code: faults in a row before updates are disabled
  Timeouts   \* may a tool give up on a call the game could still answer?

ASSUME ChannelAssumption ==
  /\ Kinds \subseteq {"py", "cpp"}
  /\ MaxCalls \in Nat
  /\ SeqMod \in Nat \ {0, 1}
  /\ MaxStarts \in Nat
  /\ MaxFaults \in Nat \ {0}
  /\ Timeouts \in BOOLEAN

Calls   == 1 .. MaxCalls
Blank   == 0                        \* a zeroed field: no call wrote it
Writer  == Calls \cup {Blank}
SeqNums == 0 .. SeqMod - 1
Codes   == {"OK", "UnknownVerb", "Failed"}   \* kCmdOK is 0, what memset leaves

VARIABLES
  \* the shared block (SB_CommandBlock)
  magic, requestSeq, responseSeq, verb, args, status, result,
  \* the plugin: where its process is, m_lastHandled, the locals of Poll
  ppc, lastHandled, preq, pverb, pstatus,
  \* the update loop that polls: faults in a row, and whether it is disabled
  avCount, updateDisabled,
  \* the tool: where it is, its kind, its call number and sequence number
  cpc, kind, call, cseq,
  \* observed: game starts so far, dispatches of each call, how each call ended
  starts, runs, fate

block  == <<magic, requestSeq, responseSeq, verb, args, status, result>>
frames == <<avCount, updateDisabled>>
plugin == <<ppc, lastHandled, preq, pverb, pstatus, frames>>
tool   == <<cpc, kind, call, cseq>>
ghost  == <<starts, runs, fate>>
vars   == <<block, plugin, tool, ghost>>

NoResult == [verb |-> Blank, args |-> Blank]
Results  == [verb : Writer, args : Writer]

\* Field types and program counters; also that a call in progress is a call.
TypeOK ==
  /\ magic \in {"zero", "SBC1"}
  /\ requestSeq \in SeqNums /\ responseSeq \in SeqNums
  /\ lastHandled \in SeqNums /\ preq \in SeqNums
  /\ verb \in Writer /\ args \in Writer /\ pverb \in Writer /\ call \in Writer
  /\ status \in Codes /\ pstatus \in Codes
  /\ result \in Results
  /\ ppc \in {"down", "init", "idle", "verb", "run", "status", "publish", "tail"}
  /\ avCount \in 0 .. MaxFaults /\ updateDisabled \in BOOLEAN
  /\ cpc \in {"idle", "verb", "args", "seq", "publish", "wait", "collect"}
  /\ cpc # "idle" => call # Blank
  /\ kind \in {"py", "cpp"}
  /\ cseq \in 0 .. SeqMod
  /\ starts \in 0 .. MaxStarts
  /\ runs \in [Calls -> Nat]
  /\ fate \in [Calls -> {"open", "answered", "refused", "lost"}]

Init ==
  /\ magic = "zero"
  /\ requestSeq = 0 /\ responseSeq = 0
  /\ verb = Blank /\ args = Blank
  /\ status = "OK" /\ result = NoResult
  /\ ppc = "down" /\ lastHandled = 0 /\ preq = 0 /\ pverb = Blank
  /\ pstatus = "Failed" /\ avCount = 0 /\ updateDisabled = FALSE
  /\ cpc = "idle" /\ kind \in Kinds /\ call = Blank /\ cseq = 0
  /\ starts = 0
  /\ runs = [k \in Calls |-> 0]
  /\ fate = [k \in Calls |-> "open"]

-----------------------------------------------------------------------------
(* The plugin (core/BridgeCommand.cpp).                                    *)

\* Initialize, in a new game process: it zeroes the named block, which a tool
\* may have kept mapped.  memset runs upwards: the numbers and the verb ...
InitializeHead ==
  /\ ppc = "down"
  /\ starts < MaxStarts
  /\ starts' = starts + 1
  /\ ppc' = "init"
  /\ magic' = "zero"
  /\ requestSeq' = 0 /\ responseSeq' = 0 /\ status' = "OK" /\ verb' = Blank
  /\ lastHandled' = 0
  /\ avCount' = 0 /\ updateDisabled' = FALSE
  /\ UNCHANGED <<args, result, preq, pverb, pstatus, tool,
                 runs, fate>>

\* ... then the argument strings and the text; the magic comes last.
InitializeTail ==
  /\ ppc = "init"
  /\ ppc' = "idle"
  /\ args' = Blank /\ result' = NoResult
  /\ magic' = "SBC1"
  /\ UNCHANGED <<requestSeq, responseSeq, verb, status,
                 lastHandled, preq, pverb, pstatus, frames, tool, ghost>>

\* A request number other than the last one handled is a new request.
NewRequestUngated == requestSeq # 0
NewRequest == requestSeq # lastHandled

PollTake ==
  /\ ppc = "idle" /\ ~updateDisabled
  /\ NewRequest
  /\ preq' = requestSeq
  /\ pstatus' = "Failed"
  /\ ppc' = "verb"
  /\ UNCHANGED <<block, lastHandled, pverb, frames, tool, ghost>>

\* Poll finds nothing new; the update goes on to the steps after it.
PollNothing ==
  /\ ppc = "idle" /\ ~updateDisabled
  /\ ~NewRequest
  /\ ppc' = "tail"
  /\ UNCHANGED <<block, lastHandled, preq, pverb, pstatus, frames, tool, ghost>>

\* Dispatch copies the verb and clears the previous result.
DispatchVerb ==
  /\ ppc = "verb"
  /\ pverb' = verb
  /\ result' = NoResult
  /\ ppc' = "run"
  /\ UNCHANGED <<magic, requestSeq, responseSeq, verb, args, status,
                 lastHandled, preq, pstatus, frames, tool, ghost>>

\* The branch of the verb runs on the arguments found in the block: it may
\* succeed, fail, or fault under the SEH guard; no branch matches an empty verb.
DispatchRun ==
  /\ ppc = "run"
  /\ ppc' = "status"
  /\ \/ /\ pverb = Blank
        /\ pstatus' = "UnknownVerb"
        /\ UNCHANGED <<result, runs>>
     \/ /\ pverb # Blank
        /\ runs' = [runs EXCEPT ![pverb] = @ + 1]
        /\ \/ /\ pstatus' = "OK"
              /\ result' = [verb |-> pverb, args |-> args]
           \/ /\ pstatus' = "Failed"
              /\ UNCHANGED result
  /\ UNCHANGED <<magic, requestSeq, responseSeq, verb, args, status,
                 lastHandled, preq, pverb, frames, tool, starts, fate>>

HandledNow == preq

PollStatus ==
  /\ ppc = "status"
  /\ status' = pstatus
  /\ lastHandled' = HandledNow
  /\ ppc' = "publish"
  /\ UNCHANGED <<magic, requestSeq, responseSeq, verb, args, result,
                 preq, pverb, pstatus, frames, tool, ghost>>

ResponseForgotten == responseSeq
Response == preq

PollPublish ==
  /\ ppc = "publish"
  /\ responseSeq' = Response
  /\ ppc' = "tail"
  /\ UNCHANGED <<magic, requestSeq, verb, args, status, result,
                 lastHandled, preq, pverb, pstatus, frames, tool, ghost>>

\* The rest of the update, after which the count of faults starts anew.
FinishUpdate ==
  /\ ppc = "tail"
  /\ ppc' = "idle"
  /\ avCount' = 0
  /\ UNCHANGED <<block, lastHandled, preq, pverb, pstatus, updateDisabled, tool, ghost>>

\* An access violation before Poll, which is then not reached, or after it.
\* The last of MaxFaults in a row disables the updates.  (A saturated count
\* stands for every count from MaxFaults on; FrameDriver.tla has each step.)
Fault ==
  /\ ppc \in {"idle", "tail"} /\ ~updateDisabled
  /\ ppc' = "idle"
  /\ avCount' = IF avCount < MaxFaults THEN avCount + 1 ELSE avCount
  /\ IF avCount + 1 >= MaxFaults THEN updateDisabled' = TRUE ELSE UNCHANGED updateDisabled
  /\ UNCHANGED <<block, lastHandled, preq, pverb, pstatus, tool, ghost>>

\* kNewGame and kPostLoadGame: two stores, so an update may meet the old count.
Revive ==
  /\ ppc = "idle" /\ updateDisabled
  /\ updateDisabled' = FALSE
  /\ avCount' \in {0, avCount}
  /\ UNCHANGED <<block, ppc, lastHandled, preq, pverb, pstatus, tool, ghost>>

\* The game process ends, after Shutdown or by a crash anywhere in a frame.
\* Neither clears the block, which outlives the process in a tool's mapping.
Exit ==
  /\ ppc \notin {"down", "init"}
  /\ ppc' = "down"
  /\ UNCHANGED <<block, lastHandled, preq, pverb, pstatus, frames, tool, ghost>>

Poll == \/ PollTake \/ PollNothing
        \/ DispatchVerb \/ DispatchRun \/ PollStatus \/ PollPublish

RunFrameUpdate == Poll \/ FinishUpdate \/ Fault

-----------------------------------------------------------------------------
(* The tool.                                                               *)

Begin(k) ==
  /\ cpc = "idle"
  /\ call < MaxCalls
  /\ kind' = k
  /\ call' = call + 1
  /\ cpc' = "verb"
  /\ UNCHANGED <<plugin, ghost>>

\* sb_command_client.py checks the magic and takes its number first.  Python's
\* integers do not wrap: the number may be one that no longer fits the field.
PyBegin ==
  /\ "py" \in Kinds
  /\ magic = "SBC1"
  /\ Begin("py")
  /\ cseq' = requestSeq + 1
  /\ UNCHANGED block

\* SkyrimBridgeClient.h checked the magic when it opened the channel, once;
\* Call clears the fields before it fills them.
CppBegin ==
  /\ "cpp" \in Kinds
  /\ magic = "SBC1" \/ starts > 1
  /\ Begin("cpp")
  /\ verb' = Blank /\ args' = Blank
  /\ UNCHANGED <<magic, requestSeq, responseSeq, status, result, cseq>>

WriteVerb ==
  /\ cpc = "verb"
  /\ verb' = call
  /\ cpc' = "args"
  /\ UNCHANGED <<magic, requestSeq, responseSeq, args, status, result,
                 plugin, kind, call, cseq, ghost>>

WriteArgs ==
  /\ cpc = "args"
  /\ args' = call
  /\ cpc' = IF kind = "cpp" THEN "seq" ELSE "publish"
  /\ UNCHANGED <<magic, requestSeq, responseSeq, verb, status, result,
                 plugin, kind, call, cseq, ghost>>

CppReusedSeq == responseSeq
CppNextSeq == IF responseSeq + 1 = SeqMod THEN 0 ELSE responseSeq + 1

CppTakeSeq ==
  /\ cpc = "seq"
  /\ cseq' = CppNextSeq
  /\ cpc' = "publish"
  /\ UNCHANGED <<block, plugin, kind, call, ghost>>

NumberFits == cseq < SeqMod

Publish ==
  /\ cpc = "publish"
  /\ NumberFits
  /\ requestSeq' = cseq
  /\ cpc' = "wait"
  /\ UNCHANGED <<magic, responseSeq, verb, args, status, result,
                 plugin, kind, call, cseq, ghost>>

\* struct.pack_into("<I", ...) raises on a number past 2^32 - 1: the call ends
\* with its payload in the block and no request published.
PyRaise ==
  /\ cpc = "publish"
  /\ ~NumberFits
  /\ cpc' = "idle"
  /\ UNCHANGED <<block, plugin, kind, call, cseq, ghost>>

AnsweredEver == responseSeq # 0
Answered == responseSeq = cseq

Observe ==
  /\ cpc = "wait"
  /\ Answered
  /\ cpc' = "collect"
  /\ UNCHANGED <<block, plugin, kind, call, cseq, ghost>>

\* The tool takes status, resultInt and resultText as they are now.  From a
\* block that a new game process has zeroed since, it takes kCmdOK and no
\* text: that call is lost, though the tool does not know.
Collect ==
  /\ cpc = "collect"
  /\ fate' = [fate EXCEPT ![call] =
                 IF responseSeq # cseq THEN "lost"
                 ELSE IF status = "UnknownVerb" THEN "refused"
                 ELSE "answered"]
  /\ cpc' = "idle"
  /\ UNCHANGED <<block, plugin, kind, call, cseq, starts, runs>>

\* The deadline passes.  With Timeouts = FALSE tools are patient: they only
\* give up on a call that no game process is left, or will be told, to answer.
GiveUp ==
  /\ cpc = "wait"
  /\ ~Answered
  /\ Timeouts \/ ppc = "down" \/ requestSeq # cseq
  /\ fate' = [fate EXCEPT ![call] = "lost"]
  /\ cpc' = "idle"
  /\ UNCHANGED <<block, plugin, kind, call, cseq, starts, runs>>

-----------------------------------------------------------------------------
Plugin == InitializeHead \/ InitializeTail \/ RunFrameUpdate \/ Revive \/ Exit

Tool ==
  \/ PyBegin \/ CppBegin \/ WriteVerb \/ WriteArgs \/ CppTakeSeq
  \/ Publish \/ PyRaise \/ Observe \/ Collect \/ GiveUp

Next == Plugin \/ Tool

Spec == Init /\ [][Next]_vars

\* The game renders frames, so an update that is not disabled takes its next
\* step, which may be a fault: nothing makes it reach Poll, and nothing revives
\* updates that are disabled.  A tool polls until its deadline, and its deadline
\* comes.  Nothing makes a tool start a call, the game start, or the game exit.
FairSpec ==
  /\ Spec
  /\ WF_vars(RunFrameUpdate)
  /\ WF_vars(WriteVerb \/ WriteArgs \/ CppTakeSeq \/ Publish \/ PyRaise
               \/ Observe \/ Collect)
  /\ WF_vars(GiveUp)

-----------------------------------------------------------------------------
(* Properties.                                                             *)

Dispatching == ppc \in {"verb", "run", "status", "publish"}

\* "Every other field is stable before the publishing store on each side"
\* (SB_CommandLayout.h:16): from the moment Poll takes a request to the moment
\* it publishes the response, no tool rewrites the request.
PayloadStable == [][Dispatching => UNCHANGED <<requestSeq, verb, args>>]_vars

\* A tool that saw its own number in responseSeq reads the answer to its own
\* call: what it finds was never computed from another call's verb or arguments,
\* and kCmdOK under its number means that its verb did run.
AnswerIsOwn ==
  cpc = "collect" =>
    /\ result.verb \in {call, Blank} /\ result.args \in {call, Blank}
    /\ (responseSeq = cseq /\ status = "OK") =>
          runs[call] > 0 /\ result.verb = call

\* A call is dispatched at most once, also when the game restarts: several verbs
\* change the save or the disk (model.spawn, game.coc, texture.convert).
AtMostOnce == \A k \in Calls : runs[k] <= 1

\* Poll gates on m_lastHandled, the protocol comment (SB_CommandLayout.h:12) on
\* responseSeq; between two polls of one process the two are the same gate.
GateMatchesProtocol == ppc \in {"idle", "tail"} => lastHandled = responseSeq

\* A request in the block of a running game is answered or refused, never left
\* waiting or dropped, unless the game process ends first, or MaxFaults updates
\* in a row fault and the updates that poll are disabled.  Faults short of that
\* only delay it.
RequestsAnswered == \A k \in Calls :
  (cpc = "wait" /\ call = k /\ requestSeq = cseq /\ ppc \notin {"down", "init"})
    ~> (fate[k] \in {"answered", "refused"} \/ ppc = "down" \/ updateDisabled)

\* The remote procedure call the channel implements (patient tools).
RpcPhase == [k \in Calls |->
  IF fate[k] # "open" THEN fate[k]
  ELSE IF k = call /\ cpc \in {"wait", "collect"}
       THEN IF runs[k] = 0 THEN "sent" ELSE "executed"
       ELSE "new"]

Rpc == INSTANCE CommandRpc WITH phase <- RpcPhase

RpcSpec == Rpc!Spec

=============================================================================
