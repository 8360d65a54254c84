--------------------------- MODULE AssistantTurns ---------------------------
(***************************************************************************)
(* The turns of the assistant: POST /api/tasks/ask-admin/turn with the     *)
(* commands of Runtime-Control it calls.  Every command is a transaction   *)
(* of its own; between two of them other requests run, the process may     *)
(* die, and the browser may go away.  A browser or proxy may send a        *)
(* request again with the same idempotency key, while the first one runs   *)
(* or after it.  The gateway is external: it accepts or refuses a stream,  *)
(* sends deltas, tool calls and one terminal event, or just ends.          *)
(*                                                                         *)
(* A turn is known by its key.  The status finalizing is left out: it is   *)
(* set and replaced within one transaction.  Of a text only its origin is  *)
(* kept; a final answer may be empty, as the initial text is.              *)
(***************************************************************************)
EXTENDS Naturals

CONSTANTS
  Requests,   \* POSTs in flight
  TurnKeys,   \* idempotency keys
  NoKey,
  Prompts,
  NoPrompt,
  Tools,      \* tool call ids the gateway uses within a turn
  NoTool,
  Answers,    \* texts the gateway ends a run with
  Empty       \* the empty text

ASSUME TurnAssumption ==
  /\ NoKey \notin TurnKeys
  /\ NoPrompt \notin Prompts
  /\ NoTool \notin Tools
  /\ {Empty, "partial", "error"} \intersect Answers = {}
  /\ Empty \notin {"partial", "error"}

VARIABLES
  user,      \* the prompt of the key's user turn
  turn,      \* assistant_turns: the key's assistant turn
  outcome,   \* assistant_tool_outcomes: status of each tool call of a turn
  ran,       \* history: how often each tool call was performed
  req,       \* where each request is
  told       \* the last event a request sent to its browser

dbVars == <<user, turn, outcome, ran>>
turnVars == <<dbVars, req, told>>

-----------------------------------------------------------------------------
Places == {"over", "user", "start", "gateway", "stream", "perform", "record", "fail"}
Idle == [at |-> "over", key |-> NoKey, prompt |-> NoPrompt, tool |-> NoTool, ok |-> FALSE]
Nothing == [what |-> "nothing", text |-> Empty]
Failure == [what |-> "failed", text |-> Empty]
Completed(x) == [what |-> "completed", text |-> x]

NoTurn == [status |-> "none", text |-> Empty]

TurnInit ==
  /\ user = [k \in TurnKeys |-> NoPrompt]
  /\ turn = [k \in TurnKeys |-> NoTurn]
  /\ outcome = [k \in TurnKeys |-> [c \in Tools |-> "none"]]
  /\ ran = [k \in TurnKeys |-> [c \in Tools |-> 0]]
  /\ req = [r \in Requests |-> Idle]
  /\ told = [r \in Requests |-> Nothing]

At(r, place) == req[r].at = place
Goes(r, place) == req' = [req EXCEPT ![r].at = place]

\* The request ends and its browser has been told x.
Ends(r, x) ==
  /\ req' = [req EXCEPT ![r].at = "over"]
  /\ told' = [told EXCEPT ![r] = x]

\* POST: a new request, or an old one again.
Post(r, k, p) ==
  /\ At(r, "over")
  /\ req' = [req EXCEPT ![r] = [Idle EXCEPT !.at = "user", !.key = k, !.prompt = p]]
  /\ told' = [told EXCEPT ![r] = Nothing]
  /\ UNCHANGED dbVars

-----------------------------------------------------------------------------
(* The two inserts.                                                        *)

\* appendUserTurn: insert, or compare with what the key stands for.
AppendUser(r) ==
  LET k == req[r].key IN
  /\ At(r, "user")
  /\ user' = [user EXCEPT ![k] = IF @ = NoPrompt THEN req[r].prompt ELSE @]
  /\ \/ user'[k] = req[r].prompt /\ Goes(r, "start") /\ UNCHANGED told
     \/ user'[k] # req[r].prompt /\ Ends(r, Failure)
  /\ UNCHANGED <<turn, outcome, ran>>

\* startAssistantTurn: a key that is known replays its turn if the turn's text
\* is still the initial one; a turn that has got any other text is a conflict.
StartTurn(r) ==
  LET k == req[r].key IN
  /\ At(r, "start")
  /\ \/ /\ turn[k].status = "none"
        /\ turn' = [turn EXCEPT ![k].status = "queued"]
        /\ Goes(r, "gateway") /\ UNCHANGED told
     \/ /\ turn[k].status = "queued"
        /\ Goes(r, "gateway") /\ UNCHANGED <<turn, told>>
     \/ /\ turn[k].status = "final" /\ turn[k].text = Empty
        /\ Ends(r, Completed(Empty)) /\ UNCHANGED turn
     \/ /\ turn[k].status # "none" /\ turn[k].text # Empty
        /\ Ends(r, Failure) /\ UNCHANGED turn
  /\ UNCHANGED <<user, outcome, ran>>

\* forPrincipal and startAssistantStream.
StartStream(r) ==
  /\ At(r, "gateway")
  /\ Goes(r, "stream") \/ Goes(r, "fail")
  /\ UNCHANGED <<dbVars, told>>

-----------------------------------------------------------------------------
(* The events of a stream.                                                 *)

\* Turns that take deltas and can be finalized.
Unsettled(k) == turn[k].status \in {"queued", "streaming"}

\* appendAssistantDelta
Delta(r) ==
  LET k == req[r].key IN
  /\ At(r, "stream")
  /\ \/ /\ Unsettled(k)
        /\ turn' = [turn EXCEPT ![k] = [status |-> "streaming", text |-> "partial"]]
        /\ UNCHANGED req
     \/ /\ ~Unsettled(k)
        /\ Goes(r, "fail") /\ UNCHANGED turn
  /\ UNCHANGED <<user, outcome, ran, told>>

\* Mutant: a call that was started and has no result is performed again.
Recorded_Finished(k, c) == outcome[k][c] \in {"succeeded", "failed"}

\* The receipt of the tool call exists.
Recorded(k, c) == outcome[k][c] # "none"

\* tool.call, up to recordStartedToolOutcome: a recorded call is answered from
\* its receipt, or said to be in progress; malformed arguments are a failure.
ToolCall(r, c) ==
  LET k == req[r].key IN
  /\ At(r, "stream")
  /\ ~Recorded(k, c)
  /\ outcome' = [outcome EXCEPT ![k][c] = "started"]
  /\ \E place \in {"perform", "record"} :
       req' = [req EXCEPT ![r].at = place, ![r].tool = c, ![r].ok = FALSE]
  /\ UNCHANGED <<user, turn, ran, told>>

\* performTool: the command of Project Management has run; its answer may be an
\* error all the same, when only part of an update went through.
PerformTool(r) ==
  /\ At(r, "perform")
  /\ ran' = [ran EXCEPT ![req[r].key][req[r].tool] = @ + 1]
  /\ \E ok \in BOOLEAN : req' = [req EXCEPT ![r].at = "record", ![r].ok = ok]
  /\ UNCHANGED <<user, turn, outcome, told>>

\* finishToolOutcome
RecordTool(r) ==
  LET k == req[r].key  c == req[r].tool IN
  /\ At(r, "record")
  /\ outcome' = [outcome EXCEPT ![k][c] =
                   IF @ = "started" THEN IF req[r].ok THEN "succeeded" ELSE "failed" ELSE @]
  /\ req' = [req EXCEPT ![r].at = "stream", ![r].tool = NoTool, ![r].ok = FALSE]
  /\ UNCHANGED <<user, turn, ran, told>>

\* Mutant: a turn that is final is finalized again with the newer answer.
Finalizable_Again(k) == turn[k].status # "failed"

\* The where clause of the claim for finalizing.
Finalizable(k) == Unsettled(k)

\* The final event: finalizeAssistantTurn.  A duplicate returns the stored turn.
\* A turn that failed meanwhile stays so.
FinalEvent(r) ==
  LET k == req[r].key IN
  /\ At(r, "stream")
  /\ \/ /\ Finalizable(k)
        /\ \E x \in Answers \union {Empty} :
             /\ turn' = [turn EXCEPT ![k] = [status |-> "final", text |-> x]]
             /\ Ends(r, Completed(x))
     \/ /\ ~Finalizable(k) /\ turn[k].status = "final"
        /\ Ends(r, Completed(turn[k].text)) /\ UNCHANGED turn
     \/ /\ ~Finalizable(k) /\ turn[k].status # "final"
        /\ Ends(r, Failure) /\ UNCHANGED turn
  /\ UNCHANGED <<user, outcome, ran>>

\* A failed event, the end of the stream without a terminal event, or a delta
\* that could not be stored.
StreamFails(r) ==
  /\ At(r, "stream")
  /\ Goes(r, "fail")
  /\ UNCHANGED <<dbVars, told>>

\* Mutant: the failure is recorded and the text so far is kept.
FailedTurn_KeepsText(k) == [turn[k] EXCEPT !.status = "failed"]

FailedTurn(k) == [status |-> "failed", text |-> "error"]

\* safeFailAssistantTurn: only an unsettled turn is failed; the answer of the
\* command is not looked at.
FailTurn(r) ==
  LET k == req[r].key IN
  /\ At(r, "fail")
  /\ turn' = IF Unsettled(k) THEN [turn EXCEPT ![k] = FailedTurn(k)] ELSE turn
  /\ Ends(r, Failure)
  /\ UNCHANGED <<user, outcome, ran>>

\* A command fails in the database, its transaction rolled back (one that was
\* committed without an answer is the command's own step followed by this).  A
\* tool that could not be recorded leaves its receipt started; a final answer
\* that could not be stored leaves the turn as it is.
DatabaseError(r) ==
  /\ \/ req[r].at \in {"user", "start", "stream", "fail"} /\ Ends(r, Failure)
     \/ /\ At(r, "record")
        /\ req' = [req EXCEPT ![r].at = "stream", ![r].tool = NoTool, ![r].ok = FALSE]
        /\ UNCHANGED told
  /\ UNCHANGED dbVars

\* The process dies, or the browser is gone and the next event cannot be
\* written: nothing more is done for the turn.
Dies(r) ==
  /\ ~At(r, "over")
  /\ req' = [req EXCEPT ![r].at = "over", ![r].tool = NoTool, ![r].ok = FALSE]
  /\ UNCHANGED <<dbVars, told>>

TurnNext ==
  \E r \in Requests :
    \/ \E k \in TurnKeys, p \in Prompts : Post(r, k, p)
    \/ AppendUser(r) \/ StartTurn(r) \/ StartStream(r)
    \/ Delta(r) \/ FinalEvent(r) \/ StreamFails(r) \/ FailTurn(r)
    \/ \E c \in Tools : ToolCall(r, c)
    \/ PerformTool(r) \/ RecordTool(r)
    \/ DatabaseError(r) \/ Dies(r)

TurnSpec == TurnInit /\ [][TurnNext]_turnVars

-----------------------------------------------------------------------------
TextFits(t) ==
  CASE t.status \in {"none", "queued"} -> t.text = Empty
    [] t.status = "streaming" -> t.text = "partial"
    [] t.status = "final" -> t.text \in Answers \union {Empty}
    [] t.status = "failed" -> t.text = "error"

Texts == Answers \union {Empty, "partial", "error"}
TurnRow == [status : {"none", "queued", "streaming", "final", "failed"}, text : Texts]
RequestState == [at : Places, key : TurnKeys \union {NoKey}, prompt : Prompts \union {NoPrompt},
                 tool : Tools \union {NoTool}, ok : BOOLEAN]
Reply == [what : {"nothing", "failed", "completed"}, text : Texts]

TurnTypeOK ==
  /\ user \in [TurnKeys -> Prompts \union {NoPrompt}]
  /\ turn \in [TurnKeys -> TurnRow]
  /\ outcome \in [TurnKeys -> [Tools -> {"none", "started", "succeeded", "failed"}]]
  /\ ran \in [TurnKeys -> [Tools -> Nat]]
  /\ req \in [Requests -> RequestState]
  /\ told \in [Requests -> Reply]

(* A stored text is what its status says, whichever requests wrote to the  *)
(* turn, and in which order: neither a partial answer nor an error stands  *)
(* as a final one, nor a partial answer as the message of a failure.       *)
TextFitsStatus == \A k \in TurnKeys : TextFits(turn[k])

(* A tool call of a turn is performed at most once, also when the request  *)
(* is sent again, when two streams of the turn deliver it, and when a      *)
(* process dies between the effect and its record; and it is recorded as   *)
(* succeeded only if it was performed.                                     *)
ToolRunsOnce ==
  \A k \in TurnKeys, c \in Tools :
    /\ ran[k][c] <= 1
    /\ outcome[k][c] = "succeeded" => ran[k][c] = 1

(* What a browser was told to be the final answer is what is stored, and   *)
(* stays so: late deltas, failures and final events of other requests for  *)
(* the same turn do not replace it.  Browsers that were given a final      *)
(* answer were given the same one; the others heard of a failure, a        *)
(* conflict or nothing.                                                    *)
ToldWhatIsStored ==
  \A r \in Requests :
    told[r].what = "completed"
      => turn[req[r].key] = [status |-> "final", text |-> told[r].text]
=============================================================================
