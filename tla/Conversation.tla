------------------------------ MODULE Conversation ------------------------------
(***************************************************************************)
(* The conversation that run_investigation_agent of backend/app/agent.py   *)
(* has with a language model through the OpenAIProvider or the             *)
(* GeminiProvider of backend/app/llm.  The API on the other side keeps no  *)
(* state: each request sends the whole conversation, which the provider    *)
(* hands to the agent as response.state and gets back with the results.    *)
(*                                                                         *)
(* OpenAI pairs an answer with a call by the call's id.  Gemini pairs it   *)
(* by name and position, and may give no ids; the provider then makes them *)
(* up, for the agent.  The input of a conversation with OpenAI is flat;    *)
(* here it is grouped into turns as Gemini's contents are.                 *)
(***************************************************************************)
EXTENDS Naturals, SequencesExt

CONSTANTS
    Providers,      \* "openai", "gemini"
    Tool,           \* names a model asks for
    CallId, NoId,   \* ids of calls, and Gemini's lack of one
    MaxParts,       \* bound: parts of a response
    maximum_rounds  \* 8

ASSUME ConversationAssumption ==
    /\ Providers \subseteq {"openai", "gemini"}
    /\ NoId \notin CallId
    /\ CallId \cap (Nat \X Nat) = {}   \* no id of the model's is a uuid4 of ours
    /\ MaxParts \in Nat /\ maximum_rounds \in Nat

VARIABLES
    provider,       \* the class of the provider
    pc,             \* asking (a request is sent), looping, reported, raised
    contents,       \* input_items, or contents: the conversation
    response,       \* ProviderResponse
    tool_results,   \* of this round
    round,          \* of the loop over maximum_rounds
    executed        \* history: the tools executed, in order

vars == <<provider, pc, contents, response, tool_results, round, executed>>

-----------------------------------------------------------------------------
(* A call whose arguments are not JSON is a fault of the model's.          *)
TextPart == [kind |-> "text"]
Call == [kind : {"call"}, id : CallId \cup {NoId}, name : Tool, json : BOOLEAN]
Answer(to, result) == [kind |-> "answer", to |-> to, result |-> result]

Turn(role, parts) == [role |-> role, parts |-> parts]

CallsOf(parts) ==
    LET calls[i \in 0..Len(parts)] ==
            IF i = 0 THEN <<>>
            ELSE IF parts[i].kind = "call" THEN Append(calls[i - 1], parts[i])
            ELSE calls[i - 1]
    IN  calls[Len(parts)]

(* What a model may say.  Ids are distinct, OpenAI's throughout.           *)
Ids(parts) == {part.id : part \in ToSet(CallsOf(parts))} \ {NoId}

Sayable(parts) ==
    LET calls == CallsOf(parts)
    IN  /\ \A i, j \in DOMAIN calls : i # j /\ calls[i].id # NoId => calls[i].id # calls[j].id
        /\ provider = "gemini" => \A i \in DOMAIN calls : calls[i].json
        /\ provider = "openai" => \A i \in DOMAIN calls : /\ calls[i].id # NoId
               /\ \A turn \in ToSet(contents) :
                      turn.role = "model" => calls[i].id \notin Ids(turn.parts)

Responses == UNION {[1..n -> Call \cup {TextPart}] : n \in 0..MaxParts}

-----------------------------------------------------------------------------
(* str(uuid4()): an id that is new.                                        *)
Uuid(i) == <<round, i>>

(* One tool request per call, with the call's id or one of its own.        *)
ToolRequests(parts) ==
    LET calls == CallsOf(parts)
    IN  [i \in DOMAIN calls |->
            [call_id |-> IF calls[i].id = NoId THEN Uuid(i) ELSE calls[i].id,
             name |-> calls[i].name]]

(* GeminiProvider keeps the names of the calls under their ids.            *)
PendingCalls(parts) ==
    {<<request.call_id, request.name>> : request \in ToSet(ToolRequests(parts))}

NoResponse == [text |-> FALSE, tool_requests |-> <<>>, pending_calls |-> {}]

Converted(parts) ==
    [text |-> TextPart \in ToSet(parts),
     tool_requests |-> ToolRequests(parts),
     pending_calls |-> IF provider = "gemini" THEN PendingCalls(parts) ELSE {}]

(* _convert_response of either class.  json.loads raises for arguments it  *)
(* cannot read.                                                            *)
Respond(parts) ==
    /\ pc = "asking" /\ Sayable(parts)
    /\ IF \A call \in ToSet(CallsOf(parts)) : call.json
         THEN /\ pc' = "looping"
              /\ response' = Converted(parts)
              /\ contents' = Append(contents, Turn("model", parts))
         ELSE pc' = "raised" /\ UNCHANGED <<response, contents>>
    /\ UNCHANGED <<provider, tool_results, round, executed>>

(* Gemini responds without a candidate, or with one that has no content.   *)
RespondNothing ==
    /\ pc = "asking" /\ provider = "gemini"
    /\ pc' = "looping"
    /\ response' = NoResponse
    /\ UNCHANGED <<provider, contents, tool_results, round, executed>>

(* The client of the API raises.                                           *)
RequestFails ==
    /\ pc = "asking"
    /\ pc' = "raised"
    /\ UNCHANGED <<provider, contents, response, tool_results, round, executed>>

-----------------------------------------------------------------------------
(* The agent's loop: a response without tool requests is the report, if it *)
(* has a text and its evidence is valid.                                   *)
Looping == pc = "looping" /\ round < maximum_rounds

TakeReport ==
    /\ Looping /\ response.tool_requests = <<>>
    /\ pc' \in IF response.text THEN {"reported", "raised"} ELSE {"raised"}
    /\ UNCHANGED <<provider, contents, response, tool_results, round, executed>>

ExceedRounds ==
    /\ pc = "looping" /\ round = maximum_rounds
    /\ pc' = "raised"
    /\ UNCHANGED <<provider, contents, response, tool_results, round, executed>>

(* execute_agent_tool for the next request; it may raise.                  *)
Unexecuted == Len(tool_results) < Len(response.tool_requests)

ExecuteTool ==
    /\ Looping /\ Unexecuted
    /\ LET request == response.tool_requests[Len(tool_results) + 1]
       IN  /\ executed' = Append(executed, request.name)
           /\ tool_results' = Append(tool_results,
                  [call_id |-> request.call_id, result |-> Len(executed) + 1])
    /\ UNCHANGED <<provider, pc, contents, response, round>>

ToolRaises ==
    /\ Looping /\ Unexecuted
    /\ pc' = "raised"
    /\ UNCHANGED <<provider, contents, response, tool_results, round, executed>>

(* Mutant of Answers: results are kept under the tool's name.              *)
AnswersByName ==
    [i \in DOMAIN tool_results |->
        LET name(j) == executed[tool_results[j].result]
            last == CHOOSE j \in DOMAIN tool_results :
                        /\ name(j) = name(i)
                        /\ \A k \in DOMAIN tool_results : name(k) = name(i) => k <= j
        IN  Answer(IF provider = "openai" THEN tool_results[i].call_id ELSE name(i),
                   tool_results[last].result)]

(* The results as the API expects them.                                    *)
Answers ==
    [i \in DOMAIN tool_results |->
        LET call_id == tool_results[i].call_id
        IN  Answer(IF provider = "openai" THEN call_id
                   ELSE (CHOOSE pending \in response.pending_calls : pending[1] = call_id)[2],
                   tool_results[i].result)]

(* continue_with_tool_results.  GeminiProvider raises RuntimeError for the *)
(* id of a call it does not know.                                          *)
Known(call_id) ==
    provider = "gemini" => \E pending \in response.pending_calls : pending[1] = call_id

ContinueWithToolResults ==
    /\ Looping /\ response.tool_requests # <<>> /\ ~Unexecuted
    /\ IF \A i \in DOMAIN tool_results : Known(tool_results[i].call_id)
         THEN /\ contents' = Append(contents, Turn("user", Answers))
              /\ pc' = "asking"
              /\ tool_results' = <<>>
              /\ round' = round + 1
         ELSE pc' = "unknown call" /\ UNCHANGED <<contents, tool_results, round>>
    /\ UNCHANGED <<provider, response, executed>>

-----------------------------------------------------------------------------
Init ==
    /\ provider \in Providers
    /\ pc = "asking"
    /\ contents = <<Turn("user", <<TextPart>>)>>
    /\ response = NoResponse
    /\ tool_results = <<>> /\ executed = <<>>
    /\ round = 0

Next ==
    \/ \E parts \in Responses : Respond(parts)
    \/ RespondNothing \/ RequestFails
    \/ TakeReport \/ ExceedRounds
    \/ ExecuteTool \/ ToolRaises
    \/ ContinueWithToolResults

Spec == Init /\ [][Next]_vars

-----------------------------------------------------------------------------
(* How many calls the model made, in some turns and in those before turn i.*)
CallsIn(turn) == IF turn.role = "model" THEN CallsOf(turn.parts) ELSE <<>>

CallCount(turns) ==
    LET count[i \in 0..Len(turns)] ==
            IF i = 0 THEN 0 ELSE count[i - 1] + Len(CallsIn(turns[i]))
    IN  count[Len(turns)]

CallsBefore(i) == CallCount(SubSeq(contents, 1, i - 1))

(* The answer is the result of the execution of that very call, and its    *)
(* API takes it for one: by the id, or by the name.                        *)
Matches(answer, call, serial) ==
    /\ answer.result = serial /\ executed[serial] = call.name
    /\ answer.to = IF provider = "openai" THEN call.id ELSE call.name

(* Whenever a request is sent, every call of the model in the conversation *)
(* has been answered in the turn that follows it, one answer for each call *)
(* and in their order, and nothing else has been answered: otherwise the   *)
(* API refuses the request, or the model takes one tool's result for       *)
(* another's.  It holds for parallel calls of one tool, and for calls      *)
(* without ids.  And the id that the agent has for a call, given by the    *)
(* model or made up, is one under which the provider knows its name.       *)
Answered(i) ==
    LET calls == CallsOf(contents[i - 1].parts)
        answers == contents[i].parts
    IN  /\ contents[i - 1].role = "model" /\ contents[i].role = "user"
        /\ Len(answers) = Len(calls)
        /\ \A n \in DOMAIN calls : Matches(answers[n], calls[n], CallsBefore(i - 1) + n)

CallsAnswered ==
    /\ pc # "unknown call"
    /\ pc = "asking" =>
          /\ Len(contents) % 2 = 1
          /\ \A i \in {j \in DOMAIN contents : j > 1 /\ j % 2 = 1} : Answered(i)
=============================================================================
