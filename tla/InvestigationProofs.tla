-------------------------- MODULE InvestigationProofs --------------------------
(***************************************************************************)
(* Theorems about module Investigation, for all values of its constants.   *)
(***************************************************************************)
EXTENDS Investigation, SequenceTheorems, FiniteSetTheorems, TLAPS

-----------------------------------------------------------------------------
(* The inductive invariant.  Where the handler is determines what its row  *)
(* says, and as long as the agent can still produce an answer,             *)
(* allowed_event_ids is what the audit table holds.                        *)
Lifecycle(i) ==
    /\ At(i, "new") => status[i] = "absent"
    /\ handler[i].pc \in {"asking", "executing", "auditing", "completing"}
          => status[i] = "running"
    /\ At(i, "refreshing") => status[i] = "completed"
    /\ At(i, "failing") =>
          status[i] \in IF handler[i].usable THEN {"running"} ELSE {"running", "completed"}
    /\ ~At(i, "done") => reply[i] = "none"
    /\ reply[i] = "201" => status[i] = "completed"
    /\ reply[i] = "502" => status[i] = "failed"

Looping(i) ==
    handler[i].pc \in {"executing", "auditing"} =>
        handler[i].requests # <<>> /\ handler[i].round < MaximumRounds

Evident(i) ==
    /\ handler[i].pc \notin {"failing", "done"} => handler[i].allowed = Evidence(i)
    /\ At(i, "completing") => ValidReport(handler[i].report, handler[i].allowed)
    /\ status[i] = "completed" => ValidReport(answer[i], Evidence(i))

Inv(i) == Lifecycle(i) /\ Looping(i) /\ Evident(i)
IInv == TypeOK /\ \A i \in Id : Inv(i)

-----------------------------------------------------------------------------
(* Lemmas on the helpers of the actions.                                   *)

(* A record is a new last row of its investigation's.                      *)
LEMMA RecordedRow ==
    ASSUME TypeOK, NEW i \in Id, NEW by \in {"agent", "debug"},
           NEW outcome \in {"result", "tool_not_allowed", "invalid_arguments"},
           NEW ids \in SUBSET EventId, Recorded(i, by, outcome, ids)
    PROVE  /\ audit' \in [Id -> Seq(AuditRow)]
           /\ \A j \in Id : j # i => audit'[j] = audit[j]
           /\ Len(audit[i]) \in Nat /\ DOMAIN audit[i] = 1..Len(audit[i])
           /\ DOMAIN audit'[i] = 1..(Len(audit[i]) + 1)
           /\ \A n \in 1..Len(audit[i]) : audit'[i][n] = audit[i][n]
           /\ audit'[i][Len(audit[i]) + 1].by = by
           /\ audit'[i][Len(audit[i]) + 1].outcome = outcome
           /\ audit'[i][Len(audit[i]) + 1].ids = ids
<1> DEFINE row == [by |-> by, outcome |-> outcome, ids |-> ids]
<1>1. audit[i] \in Seq(AuditRow) /\ row \in AuditRow
    BY DEF TypeOK, AuditRow
<1>2. audit' = [audit EXCEPT ![i] = Append(audit[i], row)]
    BY DEF Recorded
<1>3. audit'[i] = Append(audit[i], row)
    BY <1>2 DEF TypeOK
<1>4. /\ audit'[i] \in Seq(AuditRow)
      /\ Len(audit'[i]) = Len(audit[i]) + 1
      /\ \A n \in 1..Len(audit[i]) : audit'[i][n] = audit[i][n]
      /\ audit'[i][Len(audit[i]) + 1] = row
    BY <1>1, <1>3, AppendProperties
<1>5. /\ DOMAIN audit[i] = 1..Len(audit[i])
      /\ DOMAIN audit'[i] = 1..(Len(audit[i]) + 1)
      /\ Len(audit[i]) \in Nat
    BY <1>1, <1>4, LenProperties
<1>6. audit' \in [Id -> Seq(AuditRow)] /\ \A j \in Id : j # i => audit'[j] = audit[j]
    BY <1>2, <1>4, <1>3 DEF TypeOK
<1> QED
    BY <1>4, <1>5, <1>6

(* A record of an agent's tool call adds its ids to the evidence, one of   *)
(* the debug endpoint adds nothing, and no other investigation notices.    *)
LEMMA RecordedEvidence ==
    ASSUME TypeOK, NEW i \in Id, NEW by \in {"agent", "debug"},
           NEW outcome \in {"result", "tool_not_allowed", "invalid_arguments"},
           NEW ids \in SUBSET EventId, Recorded(i, by, outcome, ids)
    PROVE  /\ audit' \in [Id -> Seq(AuditRow)]
           /\ \A j \in Id : j # i => audit'[j] = audit[j]
           /\ Evidence(i)' = IF by = "agent" THEN Evidence(i) \cup ids ELSE Evidence(i)
<1>1. /\ audit' \in [Id -> Seq(AuditRow)]
      /\ \A j \in Id : j # i => audit'[j] = audit[j]
      /\ Len(audit[i]) \in Nat /\ DOMAIN audit[i] = 1..Len(audit[i])
      /\ DOMAIN audit'[i] = 1..(Len(audit[i]) + 1)
      /\ \A n \in 1..Len(audit[i]) : audit'[i][n] = audit[i][n]
      /\ audit'[i][Len(audit[i]) + 1].by = by
      /\ audit'[i][Len(audit[i]) + 1].ids = ids
    BY RecordedRow
<1>2. AgentRows(i)' = IF by = "agent" THEN AgentRows(i) \cup {Len(audit[i]) + 1}
                                     ELSE AgentRows(i)
    BY <1>1 DEF AgentRows
<1>3. \A n \in AgentRows(i) : audit'[i][n] = audit[i][n]
    BY <1>1 DEF AgentRows
<1>4. Evidence(i)' = IF by = "agent" THEN Evidence(i) \cup ids ELSE Evidence(i)
    BY <1>1, <1>2, <1>3 DEF Evidence
<1> QED
    BY <1>1, <1>4

(* What a step does not touch keeps its invariant.                         *)
LEMMA Untouched ==
    ASSUME NEW j \in Id, Inv(j),
           handler'[j] = handler[j], status'[j] = status[j], answer'[j] = answer[j],
           audit'[j] = audit[j], reply'[j] = reply[j]
    PROVE  Inv(j)'
<1>1. Evidence(j)' = Evidence(j)
    BY DEF Evidence, AgentRows
<1> QED
    BY <1>1 DEF Inv, Lifecycle, Looping, Evident, At

(* The number of faults stays within its bound.                            *)
LEMMA FaultsTyped ==
    ASSUME faults \in 0..MaxFaults, Fault \/ NoFault
    PROVE  faults' \in 0..MaxFaults
    BY InvestigationAssumption DEF Fault, NoFault

-----------------------------------------------------------------------------
(* Before the first request.                                               *)
LEMMA InitInv ==
    ASSUME Init
    PROVE  IInv
<1>1. <<>> \in Seq(Asked) /\ <<>> \in Seq(AuditRow)
    BY EmptySeq
<1>2. Fresh \in Handlers
    BY <1>1, InvestigationAssumption DEF Fresh, Handlers
<1>3. TypeOK
    BY <1>1, <1>2, InvestigationAssumption DEF Init, TypeOK
<1>4. ASSUME NEW i \in Id
      PROVE  Inv(i)
    <2>1. Evidence(i) = {}
        BY DEF Init, Evidence, AgentRows
    <2> QED
        BY <2>1 DEF Init, Fresh, Inv, Lifecycle, Looping, Evident, At
<1> QED
    BY <1>3, <1>4 DEF IInv

-----------------------------------------------------------------------------
(* The step, action by action.  An action of one handler leaves the others *)
(* alone, so there is its own investigation to look at and no other.       *)
Pcs == {"new", "asking", "executing", "auditing", "completing", "refreshing",
        "failing", "done"}

(* What a step of one handler leaves of the others.                        *)
LEMMA GoesTo ==
    ASSUME TypeOK, NEW i \in Id, NEW pc \in Pcs, GoTo(i, pc)
    PROVE  /\ handler' \in [Id -> Handlers]
           /\ \A j \in Id : j # i => handler'[j] = handler[j]
           /\ handler'[i] = [handler[i] EXCEPT !.pc = pc]
           /\ handler'[i].pc = pc /\ handler'[i].usable = handler[i].usable
           /\ handler'[i].requests = handler[i].requests
           /\ handler'[i].round = handler[i].round
           /\ handler'[i].allowed = handler[i].allowed
           /\ handler'[i].report = handler[i].report
    BY DEF TypeOK, Handlers, GoTo, Pcs

(* What an exception of the session does to its handler.                   *)
LEMMA Breaks ==
    ASSUME TypeOK, NEW i \in Id, RaiseBroken(i)
    PROVE  /\ handler' \in [Id -> Handlers]
           /\ \A j \in Id : j # i => handler'[j] = handler[j]
           /\ handler'[i].pc = "failing" /\ handler'[i].usable = FALSE
    BY DEF TypeOK, Handlers, RaiseBroken

(* A step in the life of investigation i.                                  *)
LEMMA OnlyOne ==
    ASSUME IInv, NEW i \in Id, TypeOK', Inv(i)',
           \A j \in Id : j # i =>
              /\ handler'[j] = handler[j] /\ status'[j] = status[j]
              /\ answer'[j] = answer[j] /\ audit'[j] = audit[j] /\ reply'[j] = reply[j]
    PROVE  IInv'
<1>1. ASSUME NEW j \in Id, j # i
      PROVE  Inv(j)'
    BY <1>1, Untouched DEF IInv
<1> QED
    BY <1>1 DEF IInv

(* The investigation is created, or cannot be.                             *)
LEMMA CreateStep ==
    ASSUME IInv, NEW i \in Id, Create(i) \/ CreateFails(i)
    PROVE  IInv'
<1> USE DEF IInv
<1>1. Evidence(i)' = Evidence(i)
    BY DEF Create, CreateFails, Evidence, AgentRows
<1>2. CASE Create(i)
    <2>1. /\ handler' \in [Id -> Handlers] /\ handler'[i].pc = "asking"
          /\ handler'[i].allowed = handler[i].allowed
          /\ \A j \in Id : j # i => handler'[j] = handler[j]
        BY <1>2, GoesTo DEF Create, Pcs
    <2>2. TypeOK'
        BY <1>2, <2>1 DEF Create, TypeOK
    <2>3. status'[i] = "running" /\ reply'[i] = "none"
        BY <1>2 DEF Create, TypeOK, Inv, Lifecycle, At
    <2>4. Inv(i)'
        BY <1>1, <1>2, <2>1, <2>3 DEF Create, At, Inv, Lifecycle, Looping, Evident
    <2> QED
        BY <1>2, <2>1, <2>2, <2>4, OnlyOne DEF Create, TypeOK
<1>3. CASE CreateFails(i)
    <2>1. /\ handler' \in [Id -> Handlers] /\ handler'[i].pc = "done"
          /\ \A j \in Id : j # i => handler'[j] = handler[j]
        BY <1>3, GoesTo DEF CreateFails, Answered, Pcs
    <2>2. TypeOK'
        BY <1>3, <2>1, FaultsTyped DEF CreateFails, Answered, TypeOK
    <2>3. status'[i] \in {"absent", "running"} /\ reply'[i] = "500"
        BY <1>3 DEF CreateFails, Answered, TypeOK, Inv, Lifecycle
    <2>4. Inv(i)'
        BY <2>1, <2>3 DEF At, Inv, Lifecycle, Looping, Evident
    <2> QED
        BY <1>3, <2>1, <2>2, <2>4, OnlyOne DEF CreateFails, Answered, TypeOK
<1> QED
    BY <1>2, <1>3

(* A step of a handler that raises, before a report is complete.           *)
LEMMA RaiseKeeps ==
    ASSUME IInv, NEW i \in Id, TypeOK', Raise(i) \/ RaiseBroken(i),
           handler[i].pc \in {"asking", "executing", "auditing"},
           UNCHANGED <<status, answer, reply>>,
           \A j \in Id : j # i => audit'[j] = audit[j]
    PROVE  IInv'
<1>1. status[i] = "running" /\ reply[i] = "none"
    BY DEF IInv, Inv, Lifecycle, At
<1>2. handler'[i].pc = "failing" /\ \A j \in Id : j # i => handler'[j] = handler[j]
    BY GoesTo, Breaks DEF Raise, Pcs, IInv
<1>3. Inv(i)'
    BY <1>1, <1>2 DEF At, Inv, Lifecycle, Looping, Evident
<1> QED
    BY <1>2, <1>3, OnlyOne

(* The provider's response keeps the invariant, whatever it says.          *)
LEMMA ResponseStep ==
    ASSUME IInv, NEW i \in Id,
           AsksForTools(i) \/ Reports(i) \/ SaysNothing(i) \/ ProviderFails(i)
    PROVE  IInv'
<1> USE DEF IInv
<1>1. At(i, "asking") /\ UNCHANGED <<tables, stored, reply, executed, debugged>>
    BY DEF AsksForTools, Reports, SaysNothing, ProviderFails, Responds
<1>2. faults' \in 0..MaxFaults
    BY FaultsTyped
    DEF AsksForTools, Reports, SaysNothing, ProviderFails, Responds, NoFault, TypeOK
<1>3. Evidence(i)' = Evidence(i)
    BY <1>1 DEF tables, Evidence, AgentRows
<1>4. /\ status'[i] = "running" /\ reply'[i] = "none"
      /\ handler[i].allowed = Evidence(i)
    BY <1>1 DEF tables, Inv, Lifecycle, Evident, At
<1>5. ASSUME handler' \in [Id -> Handlers]
      PROVE  TypeOK'
    BY <1>1, <1>2, <1>5 DEF tables, TypeOK
<1>6. CASE Raise(i)
    <2>1. TypeOK'
        BY <1>5, <1>6, GoesTo DEF Raise, Pcs
    <2> QED
        BY <1>1, <1>6, <2>1, RaiseKeeps DEF At, tables
<1>7. ASSUME RoundsLeft(i), NEW n \in 1..MaxRequests, NEW requests \in [1..n -> Asked],
             handler' = [handler EXCEPT
                 ![i] = [@ EXCEPT !.pc = "executing", !.requests = requests]]
      PROVE  IInv'
    <2>1. n \in Nat \ {0}
        BY <1>7, InvestigationAssumption
    <2>2. requests \in Seq(Asked) /\ Len(requests) = n
        BY <2>1
    <2>3. requests # <<>>
        BY <2>1, <2>2, EmptySeq
    <2>4. /\ handler' \in [Id -> Handlers]
          /\ \A j \in Id : j # i => handler'[j] = handler[j]
          /\ handler'[i].pc = "executing" /\ handler'[i].requests = requests
          /\ handler'[i].allowed = handler[i].allowed
          /\ handler'[i].round = handler[i].round
        BY <1>7, <2>2 DEF TypeOK, Handlers
    <2>5. Inv(i)'
        BY <1>1, <1>3, <1>4, <1>7, <2>3, <2>4
        DEF At, Inv, Lifecycle, Looping, Evident, RoundsLeft, tables
    <2> QED
        BY <1>1, <1>5, <2>4, <2>5, OnlyOne DEF tables
<1>8. ASSUME NEW cited \in SUBSET Citation, ValidReport(cited, handler[i].allowed),
             handler' = [handler EXCEPT
                 ![i] = [@ EXCEPT !.pc = "completing", !.report = cited]]
      PROVE  IInv'
    <2>1. /\ handler' \in [Id -> Handlers]
          /\ \A j \in Id : j # i => handler'[j] = handler[j]
          /\ handler'[i].pc = "completing" /\ handler'[i].report = cited
          /\ handler'[i].allowed = handler[i].allowed
        BY <1>8 DEF TypeOK, Handlers
    <2>2. Inv(i)'
        BY <1>1, <1>3, <1>4, <1>8, <2>1
        DEF At, Inv, Lifecycle, Looping, Evident, tables
    <2> QED
        BY <1>1, <1>5, <2>1, <2>2, OnlyOne DEF tables
<1>9. CASE AsksForTools(i)
    BY <1>6, <1>7, <1>9 DEF AsksForTools
<1>10. CASE Reports(i)
    BY <1>6, <1>8, <1>10 DEF Reports
<1> QED
    BY <1>6, <1>9, <1>10 DEF SaysNothing, ProviderFails

(* A tool call, executed, raising or refused, keeps the invariant.         *)
LEMMA ToolStep ==
    ASSUME IInv, NEW i \in Id,
           CallTool(i) \/ ToolRaises(i) \/ RefuseTool(i) \/ AuditFails(i)
    PROVE  IInv'
<1> USE DEF IInv
<1>1. CASE CallTool(i)
    <2>1. At(i, "executing") /\ UNCHANGED <<tables, stored, reply, faults, debugged>>
        BY <1>1 DEF CallTool, Executing
    <2>2. PICK ids \in SUBSET stored :
              handler' = [handler EXCEPT
                  ![i] = [@ EXCEPT !.pc = "auditing", !.result = ids]]
        BY <1>1 DEF CallTool, ToolResults
    <2>3. /\ handler' \in [Id -> Handlers]
          /\ \A j \in Id : j # i => handler'[j] = handler[j]
          /\ handler'[i].pc = "auditing" /\ handler'[i].allowed = handler[i].allowed
          /\ handler'[i].requests = handler[i].requests
          /\ handler'[i].round = handler[i].round
        BY <2>2 DEF TypeOK, Handlers
    <2> executed' \in [Id -> Nat]
        <3>1. executed \in [Id -> Nat] /\ executed' = [executed EXCEPT ![i] = executed[i] + 1]
            BY <1>1 DEF CallTool, TypeOK
        <3> QED
            BY <3>1
    <2>4. TypeOK'
        BY <2>1, <2>3 DEF tables, TypeOK
    <2>5. Evidence(i)' = Evidence(i)
        BY <2>1 DEF tables, Evidence, AgentRows
    <2>6. Inv(i)'
        BY <2>1, <2>3, <2>5 DEF At, Inv, Lifecycle, Looping, Evident, tables
    <2> QED
        BY <2>1, <2>3, <2>4, <2>6, OnlyOne DEF tables
<1>2. CASE ToolRaises(i)
    <2>1. /\ handler[i].pc = "executing"
          /\ Raise(i) \/ RaiseBroken(i)
          /\ Fault \/ NoFault
          /\ UNCHANGED <<tables, stored, reply, debugged>>
        BY <1>2 DEF ToolRaises, Executing, At
    <2>2. handler' \in [Id -> Handlers]
        BY <2>1, GoesTo, Breaks DEF Raise, Pcs
    <2>3. executed' \in [Id -> Nat] /\ faults' \in 0..MaxFaults
        BY <1>2, <2>1, FaultsTyped DEF ToolRaises, TypeOK
    <2>4. TypeOK'
        BY <2>1, <2>2, <2>3 DEF tables, TypeOK
    <2> QED
        BY <2>1, <2>4, RaiseKeeps DEF tables
<1>3. ASSUME audit' \in [Id -> Seq(AuditRow)],
             \A j \in Id : j # i => audit'[j] = audit[j],
             handler[i].pc \in {"executing", "auditing"},
             Raise(i) \/ RaiseBroken(i), Fault \/ NoFault,
             UNCHANGED <<status, answer, stored, reply, executed, debugged>>
      PROVE  IInv'
    <2>1. handler' \in [Id -> Handlers]
        BY <1>3, GoesTo, Breaks DEF Raise, Pcs
    <2>2. TypeOK'
        BY <1>3, <2>1, FaultsTyped DEF TypeOK
    <2> QED
        BY <1>3, <2>2, RaiseKeeps
<1>4. CASE RefuseTool(i)
    <2>1. PICK outcome \in {"tool_not_allowed", "invalid_arguments"} :
              Recorded(i, "agent", outcome, {})
        BY <1>4 DEF RefuseTool
    <2>2. /\ audit' \in [Id -> Seq(AuditRow)]
          /\ \A j \in Id : j # i => audit'[j] = audit[j]
        BY <2>1, RecordedEvidence
    <2> QED
        BY <1>3, <1>4, <2>2 DEF RefuseTool, Executing, At, NoFault
<1>5. CASE AuditFails(i)
    <2>1. \/ UNCHANGED audit
          \/ \E outcome \in {"result", "tool_not_allowed", "invalid_arguments"},
                ids \in {{}, handler[i].result} : Recorded(i, "agent", outcome, ids)
        BY <1>5 DEF AuditFails
    <2>2. {} \in SUBSET EventId /\ handler[i].result \in SUBSET EventId
        BY DEF TypeOK, Handlers
    <2>3. /\ audit' \in [Id -> Seq(AuditRow)]
          /\ \A j \in Id : j # i => audit'[j] = audit[j]
        <3>1. CASE UNCHANGED audit
            BY <3>1 DEF TypeOK
        <3>2. ASSUME NEW outcome \in {"result", "tool_not_allowed", "invalid_arguments"},
                     NEW ids \in {{}, handler[i].result},
                     Recorded(i, "agent", outcome, ids)
              PROVE  /\ audit' \in [Id -> Seq(AuditRow)]
                     /\ \A j \in Id : j # i => audit'[j] = audit[j]
            BY <2>2, <3>2, RecordedEvidence
        <3> QED
            BY <2>1, <3>1, <3>2
    <2> QED
        BY <1>3, <1>5, <2>3 DEF AuditFails, Executing, At
<1> QED
    BY <1>1, <1>2, <1>4, <1>5

(* The only step that extends allowed_event_ids extends the evidence in    *)
(* the audit table by the same ids.                                        *)
LEMMA AuditStep ==
    ASSUME IInv, NEW i \in Id, AuditResult(i)
    PROVE  IInv'
<1> USE DEF IInv
<1> DEFINE last == Len(handler[i].requests) = 1
<1>1. /\ handler[i].requests \in Seq(Asked) /\ handler[i].requests # <<>>
      /\ handler[i].round \in 0..MaximumRounds /\ handler[i].round < MaximumRounds
      /\ handler[i].result \in SUBSET EventId
      /\ handler[i].allowed = Evidence(i)
      /\ status[i] = "running" /\ reply[i] = "none"
    BY DEF AuditResult, At, TypeOK, Handlers, Inv, Lifecycle, Looping, Evident
<1>2. /\ Tail(handler[i].requests) \in Seq(Asked)
      /\ ~last => Tail(handler[i].requests) # <<>>
    <2>1. /\ Tail(handler[i].requests) \in Seq(Asked)
          /\ Len(Tail(handler[i].requests)) = Len(handler[i].requests) - 1
        BY <1>1, HeadTailProperties
    <2>2. Len(handler[i].requests) \in Nat /\ Len(handler[i].requests) # 0
        BY <1>1, EmptySeq, LenProperties
    <2>3. ~last => Len(Tail(handler[i].requests)) # 0
        BY <2>1, <2>2
    <2> QED
        BY <2>1, <2>3, EmptySeq
<1>3. handler[i].round + 1 \in 0..MaximumRounds
    BY <1>1, InvestigationAssumption
<1>4. /\ audit' \in [Id -> Seq(AuditRow)]
      /\ \A j \in Id : j # i => audit'[j] = audit[j]
      /\ Evidence(i)' = Evidence(i) \cup handler[i].result
    BY <1>1, RecordedEvidence DEF AuditResult
<1>5. /\ handler' \in [Id -> Handlers]
      /\ \A j \in Id : j # i => handler'[j] = handler[j]
      /\ handler'[i].pc = IF last THEN "asking" ELSE "executing"
      /\ handler'[i].round = IF last THEN handler[i].round + 1 ELSE handler[i].round
      /\ handler'[i].requests = Tail(handler[i].requests)
      /\ handler'[i].allowed = handler[i].allowed \cup handler[i].result
    <2>1. handler' = [handler EXCEPT ![i] = Proceeding(handler[i])]
        BY DEF AuditResult
    <2>2. handler \in [Id -> Handlers] /\ handler[i] \in Handlers
        BY DEF TypeOK
    <2>3. Proceeding(handler[i]) \in Handlers
        BY <1>1, <1>2, <1>3, <2>2 DEF Handlers, Proceeding
    <2>4. LET next == Proceeding(handler[i])
          IN  /\ next.pc = IF last THEN "asking" ELSE "executing"
              /\ next.round = IF last THEN handler[i].round + 1 ELSE handler[i].round
              /\ next.requests = Tail(handler[i].requests)
              /\ next.allowed = handler[i].allowed \cup handler[i].result
        BY <2>2 DEF Handlers, Proceeding
    <2> QED
        BY <2>1, <2>2, <2>3, <2>4
<1> UNCHANGED <<status, answer, stored, reply, executed, faults, debugged>>
    BY DEF AuditResult
<1>6. TypeOK'
    BY <1>4, <1>5 DEF TypeOK
<1>7. Inv(i)'
    BY <1>1, <1>2, <1>4, <1>5 DEF At, Inv, Lifecycle, Looping, Evident
<1> QED
    BY <1>4, <1>5, <1>6, <1>7, OnlyOne

(* So does the commit of the report, or its failure.                       *)
LEMMA CompleteStep ==
    ASSUME IInv, NEW i \in Id, Complete(i) \/ CompleteFails(i)
    PROVE  IInv'
<1> USE DEF IInv
<1>1. /\ At(i, "completing") /\ UNCHANGED <<audit, stored, reply, executed, debugged>>
      /\ GoTo(i, "refreshing") \/ RaiseBroken(i)
      /\ \/ UNCHANGED <<status, answer>> /\ RaiseBroken(i)
         \/ /\ status' = [status EXCEPT ![i] = "completed"]
            /\ answer' = [answer EXCEPT ![i] = handler[i].report]
      /\ Fault \/ NoFault
    BY DEF Complete, CompleteFails, NoFault
<1>2. /\ handler[i].allowed = Evidence(i)
      /\ ValidReport(handler[i].report, Evidence(i))
      /\ status[i] = "running" /\ reply[i] = "none"
      /\ handler[i].report \in SUBSET Citation
    BY <1>1 DEF At, Inv, Lifecycle, Evident, TypeOK, Handlers
<1>3. Evidence(i)' = Evidence(i)
    BY <1>1 DEF Evidence, AgentRows
<1>4. /\ handler' \in [Id -> Handlers]
      /\ \A j \in Id : j # i => handler'[j] = handler[j]
    BY <1>1, GoesTo, Breaks DEF Pcs
<1>5. TypeOK'
    <2>1. status' \in [Id -> {"absent", "running"} \cup Terminal]
        BY <1>1 DEF TypeOK, Terminal
    <2>2. answer' \in [Id -> SUBSET Citation]
        BY <1>1, <1>2 DEF TypeOK
    <2>3. faults' \in 0..MaxFaults
        BY <1>1, FaultsTyped DEF TypeOK
    <2> QED
        BY <1>1, <1>4, <2>1, <2>2, <2>3 DEF TypeOK
<1>6. /\ \A j \in Id : j # i => status'[j] = status[j] /\ answer'[j] = answer[j]
      /\ \/ status'[i] = "running" /\ answer'[i] = answer[i]
         \/ status'[i] = "completed" /\ answer'[i] = handler[i].report
    BY <1>1, <1>2 DEF TypeOK
<1>7. CASE GoTo(i, "refreshing")
    <2>1. handler'[i].pc = "refreshing" /\ handler'[i].allowed = handler[i].allowed
        BY <1>7, GoesTo DEF Pcs
    <2>2. ~RaiseBroken(i)
        BY <2>1, Breaks
    <2>3. status'[i] = "completed" /\ answer'[i] = handler[i].report
        BY <1>1, <2>2 DEF TypeOK
    <2>4. Inv(i)'
        BY <1>1, <1>2, <1>3, <2>1, <2>3 DEF At, Inv, Lifecycle, Looping, Evident
    <2> QED
        BY <1>1, <1>4, <1>5, <1>6, <2>4, OnlyOne
<1>8. CASE RaiseBroken(i)
    <2>1. handler'[i].pc = "failing" /\ handler'[i].usable = FALSE
        BY <1>8, Breaks
    <2>2. Inv(i)'
        BY <1>1, <1>2, <1>3, <1>6, <2>1 DEF At, Inv, Lifecycle, Looping, Evident
    <2> QED
        BY <1>1, <1>4, <1>5, <1>6, <2>2, OnlyOne
<1> QED
    BY <1>1, <1>7, <1>8

(* So does the reply 201, or the refresh that fails before it.             *)
LEMMA ReturnStep ==
    ASSUME IInv, NEW i \in Id, Return(i) \/ RefreshFails(i)
    PROVE  IInv'
<1> USE DEF IInv
<1>1. /\ At(i, "refreshing") /\ UNCHANGED <<tables, stored, executed, debugged>>
      /\ Fault \/ NoFault
    BY DEF Return, RefreshFails, NoFault
<1>2. status[i] = "completed" /\ reply[i] = "none" /\ Evidence(i)' = Evidence(i)
    BY <1>1 DEF At, Inv, Lifecycle, tables, Evidence, AgentRows
<1>3. CASE Return(i)
    <2>1. /\ handler' \in [Id -> Handlers] /\ handler'[i].pc = "done"
          /\ \A j \in Id : j # i => handler'[j] = handler[j]
        BY <1>3, GoesTo DEF Return, Answered, Pcs
    <2>2. /\ reply' = [reply EXCEPT ![i] = "201"]
          /\ reply'[i] = "201"
        BY <1>3 DEF Return, Answered, TypeOK
    <2>3. TypeOK'
        BY <1>1, <2>1, <2>2, FaultsTyped DEF tables, TypeOK
    <2>4. Inv(i)'
        BY <1>1, <1>2, <2>1, <2>2 DEF tables, At, Inv, Lifecycle, Looping, Evident
    <2> QED
        BY <1>1, <2>1, <2>2, <2>3, <2>4, OnlyOne DEF tables, TypeOK
<1>4. CASE RefreshFails(i)
    <2>1. /\ handler' \in [Id -> Handlers]
          /\ handler'[i].pc = "failing" /\ handler'[i].usable = FALSE
          /\ \A j \in Id : j # i => handler'[j] = handler[j]
        BY <1>4, Breaks DEF RefreshFails
    <2>2. reply' = reply
        BY <1>4 DEF RefreshFails
    <2>3. TypeOK'
        BY <1>1, <2>1, <2>2, FaultsTyped DEF tables, TypeOK
    <2>4. Inv(i)'
        BY <1>1, <1>2, <2>1, <2>2 DEF tables, At, Inv, Lifecycle, Looping, Evident
    <2> QED
        BY <1>1, <2>1, <2>2, <2>3, <2>4, OnlyOne DEF tables
<1> QED
    BY <1>3, <1>4

(* So does the except clause, or its own failure.                          *)
LEMMA MarkStep ==
    ASSUME IInv, NEW i \in Id, MarkFailed(i) \/ MarkingFails(i)
    PROVE  IInv'
<1> USE DEF IInv
<1>1. /\ At(i, "failing") /\ UNCHANGED <<audit, stored, executed, debugged>>
      /\ Fault \/ NoFault
      /\ \/ Answered(i, "502") /\ handler[i].usable
            /\ status' = [status EXCEPT ![i] = "failed"]
            /\ answer' = [answer EXCEPT ![i] = {}]
         \/ Answered(i, "500") /\ UNCHANGED <<status, answer>>
         \/ Answered(i, "500") /\ handler[i].usable
            /\ status' = [status EXCEPT ![i] = "failed"]
            /\ answer' = [answer EXCEPT ![i] = {}]
    BY DEF MarkFailed, MarkingFails, NoFault
<1>2. Evidence(i)' = Evidence(i)
    BY <1>1 DEF Evidence, AgentRows
<1>3. /\ handler' \in [Id -> Handlers] /\ handler'[i].pc = "done"
      /\ \A j \in Id : j # i => handler'[j] = handler[j]
    BY <1>1, GoesTo DEF Answered, Pcs
<1>4. TypeOK'
    <2>1. status' \in [Id -> {"absent", "running"} \cup Terminal]
        BY <1>1 DEF TypeOK, Terminal
    <2>2. answer' \in [Id -> SUBSET Citation]
        BY <1>1 DEF TypeOK
    <2>3. reply' \in [Id -> {"none", "201", "500", "502", "lost"}]
        BY <1>1 DEF Answered, TypeOK
    <2>4. faults' \in 0..MaxFaults
        BY <1>1, FaultsTyped DEF TypeOK
    <2> QED
        BY <1>1, <1>3, <2>1, <2>2, <2>3, <2>4 DEF TypeOK
<1>5. \A j \in Id : j # i =>
          status'[j] = status[j] /\ answer'[j] = answer[j] /\ reply'[j] = reply[j]
    BY <1>1 DEF Answered, TypeOK
<1>6. \/ reply'[i] = "502" /\ status'[i] = "failed"
      \/ reply'[i] = "500" /\ status'[i] = status[i] /\ answer'[i] = answer[i]
      \/ reply'[i] = "500" /\ status'[i] = "failed"
    BY <1>1 DEF Answered, TypeOK
<1>7. Inv(i)'
    BY <1>1, <1>2, <1>3, <1>6 DEF At, Inv, Lifecycle, Looping, Evident
<1> QED
    BY <1>1, <1>3, <1>4, <1>5, <1>7, OnlyOne

(* So does the death of the API process.                                   *)
LEMMA CrashStep ==
    ASSUME IInv, Crash
    PROVE  IInv'
<1> USE DEF IInv
<1> DEFINE dead == {i \in Id : handler[i].pc \notin {"new", "done"}}
<1>1. /\ handler' = [i \in Id |-> IF i \in dead THEN [handler[i] EXCEPT !.pc = "done"]
                                                ELSE handler[i]]
      /\ reply' = [i \in Id |-> IF i \in dead THEN "lost" ELSE reply[i]]
      /\ UNCHANGED <<tables, stored, executed, debugged>>
      /\ Fault
    BY DEF Crash
<1>2. handler' \in [Id -> Handlers]
    <2>1. \A i \in Id : handler[i] \in Handlers
        BY DEF TypeOK
    <2>2. \A h \in Handlers : [h EXCEPT !.pc = "done"] \in Handlers
        BY DEF Handlers
    <2> QED
        BY <1>1, <2>1, <2>2
<1>3. reply' \in [Id -> {"none", "201", "500", "502", "lost"}]
    BY <1>1 DEF TypeOK
<1>4. TypeOK'
    BY <1>1, <1>2, <1>3, FaultsTyped DEF tables, TypeOK
<1>5. ASSUME NEW i \in Id
      PROVE  Inv(i)'
    <2>1. Evidence(i)' = Evidence(i) /\ status' = status /\ answer' = answer
        BY <1>1 DEF tables, Evidence, AgentRows
    <2>2. CASE i \in dead
        <3>1. handler'[i].pc = "done" /\ reply'[i] = "lost"
            <4>1. handler[i] \in Handlers
                BY DEF TypeOK
            <4>2. handler'[i] = [handler[i] EXCEPT !.pc = "done"] /\ reply'[i] = "lost"
                BY <1>1, <2>2
            <4> QED
                BY <4>1, <4>2 DEF Handlers
        <3> QED
            BY <2>1, <3>1 DEF At, Inv, Lifecycle, Looping, Evident
    <2>3. CASE i \notin dead
        <3>1. handler'[i] = handler[i] /\ reply'[i] = reply[i]
            BY <1>1, <2>3
        <3> QED
            BY <1>1, <2>1, <3>1, Untouched DEF tables
    <2> QED
        BY <2>2, <2>3
<1> QED
    BY <1>4, <1>5

(* So do the debug endpoint and the events that arrive meanwhile.          *)
LEMMA OutsideStep ==
    ASSUME IInv, \/ \E i \in Id : Debug(i)
                 \/ \E e \in EventId : Ingest(e)
                 \/ UNCHANGED vars
    PROVE  IInv'
<1> USE DEF IInv
<1>1. UNCHANGED <<status, answer, handler, reply, executed, faults>>
    BY DEF Debug, Ingest, vars, tables
<1>2. ASSUME NEW i \in Id, Debug(i)
      PROVE  IInv'
    <2>1. PICK row \in AuditRow : Recorded(i, "debug", row.outcome, row.ids)
        BY <1>2 DEF Debug
    <2>2. /\ audit' \in [Id -> Seq(AuditRow)]
          /\ \A j \in Id : j # i => audit'[j] = audit[j]
          /\ Evidence(i)' = Evidence(i)
        BY <2>1, RecordedEvidence DEF AuditRow
    <2>3. debugged' \in 0..MaxDebug
        BY <1>2, InvestigationAssumption DEF Debug, TypeOK
    <2>4. TypeOK'
        BY <1>1, <1>2, <2>2, <2>3 DEF Debug, TypeOK
    <2>5. Inv(i)'
        BY <1>1, <2>2 DEF At, Inv, Lifecycle, Looping, Evident
    <2> QED
        BY <1>1, <2>2, <2>4, <2>5, OnlyOne
<1>3. CASE UNCHANGED <<audit, debugged>> /\ stored' \subseteq EventId
    <2>1. TypeOK'
        BY <1>1, <1>3 DEF TypeOK
    <2>2. \A i \in Id : Inv(i)'
        BY <1>1, <1>3, Untouched
    <2> QED
        BY <2>1, <2>2
<1>4. \/ \E i \in Id : Debug(i)
      \/ UNCHANGED <<audit, debugged>> /\ stored' \subseteq EventId
    BY DEF Ingest, vars, tables, TypeOK
<1> QED
    BY <1>2, <1>3, <1>4

(* So does every step.                                                     *)
LEMMA InvStep ==
    ASSUME IInv, [Next]_vars
    PROVE  IInv'
    BY CreateStep, ResponseStep, ToolStep, AuditStep, CompleteStep, ReturnStep,
       MarkStep, CrashStep, OutsideStep
    DEF Next, Handling

(* Where a handler is, what its row says and what its agent may cite agree *)
(* in every reachable state.                                               *)
THEOREM Invariance == Spec => []IInv
<1>1. Init => IInv
    BY InitInv
<1>2. IInv /\ [Next]_vars => IInv'
    BY InvStep
<1> QED
    BY <1>1, <1>2, PTL DEF Spec

(* The variables of create_investigation and its tables have their types:  *)
(* in particular the agent never gets beyond its maximum_rounds.           *)
THEOREM TypeCorrect == Spec => []TypeOK
<1>1. IInv => TypeOK
    BY DEF IInv
<1> QED
    BY <1>1, Invariance, PTL

(* Completed reports are backed by audited evidence: every citation that   *)
(* has the shape of an id is of an event that an audited call returned.    *)
THEOREM EvidenceHolds == Spec => []EvidenceBacked
<1>1. IInv => EvidenceBacked
    BY DEF IInv, Inv, Evident, ValidReport, EvidenceBacked
<1> QED
    BY <1>1, Invariance, PTL

(* A report about events that were found cites one of them at least.       *)
THEOREM CitedHolds == Spec => []EvidenceCited
<1>1. IInv => EvidenceCited
    BY DEF IInv, Inv, Evident, ValidReport, EvidenceCited
<1> QED
    BY <1>1, Invariance, PTL

(* The status code of the reply agrees with the row.                       *)
THEOREM RepliesAgree == Spec => []ReplyAgrees
<1>1. IInv => ReplyAgrees
    BY DEF IInv, Inv, Lifecycle, ReplyAgrees
<1> QED
    BY <1>1, Invariance, PTL

(* A row that is completed or failed stays so: the except clause never     *)
(* turns a committed report into a failure, for after the commit only the  *)
(* refresh can raise, which leaves a session that the clause cannot use.   *)
THEOREM FinalityHolds == Spec => Finality
<1> DEFINE Final == \A i \in Id :
        status[i] \in Terminal => UNCHANGED <<status[i], answer[i]>>
<1>1. ASSUME IInv, Next
      PROVE  Final
    <2>1. ASSUME NEW i \in Id, status[i] \in Terminal
          PROVE  /\ ~At(i, "new") /\ ~At(i, "completing")
                 /\ At(i, "failing") => ~handler[i].usable
        BY <1>1, <2>1 DEF IInv, Inv, Lifecycle, Terminal, At
    <2>2. ASSUME NEW i \in Id, NEW j \in Id, status[j] \in Terminal,
                 Create(i) \/ CreateFails(i) \/ Complete(i) \/ CompleteFails(i)
          PROVE  UNCHANGED <<status[j], answer[j]>>
        BY <1>1, <2>1, <2>2
        DEF Create, CreateFails, Complete, CompleteFails, IInv, TypeOK
    <2>3. ASSUME NEW i \in Id, NEW j \in Id, status[j] \in Terminal,
                 MarkFailed(i) \/ MarkingFails(i)
          PROVE  UNCHANGED <<status[j], answer[j]>>
        BY <1>1, <2>1, <2>3 DEF MarkFailed, MarkingFails, IInv, TypeOK
    <2>4. ASSUME UNCHANGED <<status, answer>>
          PROVE  Final
        BY <2>4
    <2>5. \/ UNCHANGED <<status, answer>>
          \/ \E i \in Id : \/ Create(i) \/ CreateFails(i)
                          \/ Complete(i) \/ CompleteFails(i)
                          \/ MarkFailed(i) \/ MarkingFails(i)
        BY <1>1
        DEF Next, Handling, tables, AsksForTools, Reports, SaysNothing, ProviderFails,
            Responds, CallTool, ToolRaises, AuditResult, RefuseTool, AuditFails,
            Return, RefreshFails, Debug, Crash, Ingest
    <2> QED
        BY <2>2, <2>3, <2>4, <2>5
<1>2. IInv /\ [Next]_vars => [Final]_vars
    BY <1>1
<1> QED
    BY <1>2, Invariance, PTL DEF Spec, Finality
-----------------------------------------------------------------------------
(* Why a row can stay running.  A session is broken, and a handler ends    *)
(* without marking its row, only after a fault or over an audit record or  *)
(* a report that the table refuses.                                        *)
Excused(i) ==
    \/ faults > 0
    \/ handler[i].requests # <<>> /\ Head(handler[i].requests) = "unstorable"
    \/ ~Storable(handler[i].report)

Settled(i) ==
    /\ handler[i].pc \notin {"failing", "done"} => handler[i].usable
    /\ At(i, "failing") /\ ~handler[i].usable => Excused(i)
    /\ reply[i] # "none" /\ status[i] = "running" => Excused(i)

(* A handler's step settles the others as before, unless it was a fault,   *)
(* which excuses them all.                                                 *)
LEMMA SettledOthers ==
    ASSUME IInv, NEW i \in Id, \A j \in Id : Settled(j), Fault \/ NoFault,
           \A j \in Id : j # i => /\ handler'[j] = handler[j]
                                 /\ status'[j] = status[j] /\ reply'[j] = reply[j],
           Settled(i)'
    PROVE  \A j \in Id : Settled(j)'
<1>1. faults \in Nat /\ (faults' = faults \/ faults' = faults + 1)
    BY InvestigationAssumption DEF IInv, TypeOK, Fault, NoFault
<1>2. ASSUME NEW j \in Id, j # i
      PROVE  Settled(j)'
    BY <1>1, <1>2 DEF Settled, Excused, At
<1> QED
    BY <1>2

(* The handler that goes on with a usable session, or raises with one.     *)
LEMMA SettledGoingOn ==
    ASSUME IInv, NEW i \in Id, \A j \in Id : Settled(j), Fault \/ NoFault,
           UNCHANGED <<status, reply>>,
           handler[i].pc \notin {"failing", "done"},
           \A j \in Id : j # i => handler'[j] = handler[j],
           handler'[i].usable = handler[i].usable
    PROVE  \A j \in Id : Settled(j)'
<1>1. handler[i].usable /\ reply[i] = "none"
    BY DEF IInv, Inv, Lifecycle, Settled, At
<1>2. Settled(i)'
    BY <1>1 DEF Settled, At
<1> QED
    BY <1>2, SettledOthers

(* The handler whose session a fault has broken.                           *)
LEMMA SettledBreaking ==
    ASSUME IInv, NEW i \in Id, \A j \in Id : Settled(j), Fault, RaiseBroken(i),
           UNCHANGED reply, \A j \in Id : j # i => status'[j] = status[j]
    PROVE  \A j \in Id : Settled(j)'
<1>1. faults' > 0
    BY InvestigationAssumption DEF IInv, TypeOK, Fault
<1>2. /\ \A j \in Id : j # i => handler'[j] = handler[j]
      /\ handler'[i].pc = "failing"
    BY Breaks DEF IInv
<1>3. Settled(i)'
    BY <1>1, <1>2 DEF Settled, Excused
<1> QED
    BY <1>2, <1>3, SettledOthers

(* The handlers' steps, the agent's first.                                 *)
LEMMA SettledByAgent ==
    ASSUME IInv, NEW i \in Id, \A j \in Id : Settled(j),
           \/ AsksForTools(i) \/ Reports(i) \/ SaysNothing(i) \/ ProviderFails(i)
           \/ CallTool(i) \/ ToolRaises(i) \/ AuditResult(i) \/ RefuseTool(i)
           \/ AuditFails(i)
    PROVE  \A j \in Id : Settled(j)'
<1>1. handler \in [Id -> Handlers] /\ handler[i] \in Handlers
    BY DEF IInv, TypeOK
<1>2. /\ handler[i].pc \in {"asking", "executing", "auditing"}
      /\ UNCHANGED <<status, reply>> /\ (Fault \/ NoFault)
    BY DEF AsksForTools, Reports, SaysNothing, ProviderFails, Responds, CallTool,
           ToolRaises, AuditResult, RefuseTool, AuditFails, Executing, At, tables, NoFault
<1>3. ASSUME \A j \in Id : j # i => handler'[j] = handler[j],
             handler'[i].usable = handler[i].usable
      PROVE  \A j \in Id : Settled(j)'
    BY <1>2, <1>3, SettledGoingOn
<1>4. CASE Raise(i)
    BY <1>3, <1>4, GoesTo DEF IInv, Raise, Pcs
<1>5. CASE AsksForTools(i)
    <2>1. ASSUME NEW n \in 1..MaxRequests, NEW requests \in [1..n -> Asked],
                 handler' = [handler EXCEPT
                     ![i] = [@ EXCEPT !.pc = "executing", !.requests = requests]]
          PROVE  \A j \in Id : Settled(j)'
        BY <1>1, <1>3, <2>1 DEF Handlers
    <2> QED
        BY <1>4, <1>5, <2>1 DEF AsksForTools
<1>6. CASE Reports(i)
    <2>1. ASSUME NEW cited \in SUBSET Citation,
                 handler' = [handler EXCEPT
                     ![i] = [@ EXCEPT !.pc = "completing", !.report = cited]]
          PROVE  \A j \in Id : Settled(j)'
        BY <1>1, <1>3, <2>1 DEF Handlers
    <2> QED
        BY <1>4, <1>6, <2>1 DEF Reports
<1>7. CASE CallTool(i)
    <2>1. PICK ids \in ToolResults :
              handler' = [handler EXCEPT
                  ![i] = [@ EXCEPT !.pc = "auditing", !.result = ids]]
        BY <1>7 DEF CallTool
    <2> QED
        BY <1>1, <1>3, <2>1 DEF Handlers
<1>8. CASE AuditResult(i)
    <2>1. handler' = [handler EXCEPT ![i] = Proceeding(handler[i])]
        BY <1>8 DEF AuditResult
    <2>2. Proceeding(handler[i]).usable = handler[i].usable
        BY <1>1 DEF Handlers, Proceeding
    <2> QED
        BY <1>1, <1>3, <2>1, <2>2
<1>9. CASE Fault /\ RaiseBroken(i)
    BY <1>2, <1>9, SettledBreaking
<1>10. CASE RaiseBroken(i) /\ NoFault /\ Executing(i, {"unstorable"})
    <2>1. handler[i].requests # <<>> /\ Head(handler[i].requests) = "unstorable"
        BY <1>10 DEF Executing, At, IInv, Inv, Looping
    <2>2. handler'[i] = [handler[i] EXCEPT !.pc = "failing", !.usable = FALSE]
        BY <1>1, <1>10 DEF RaiseBroken
    <2>3. /\ handler'[i].requests = handler[i].requests
          /\ handler'[i].pc = "failing"
        BY <1>1, <2>2 DEF Handlers
    <2>4. Settled(i)'
        BY <2>1, <2>3 DEF Settled, Excused
    <2>5. \A j \in Id : j # i => handler'[j] = handler[j]
        BY <1>10, Breaks DEF IInv
    <2> QED
        BY <1>2, <2>4, <2>5, SettledOthers
<1> QED
    BY <1>4, <1>5, <1>6, <1>7, <1>8, <1>9, <1>10
    DEF SaysNothing, ProviderFails, ToolRaises, RefuseTool, AuditFails

(* The steps of create_investigation around the agent.                     *)
LEMMA SettledByEndpoint ==
    ASSUME IInv, NEW i \in Id, \A j \in Id : Settled(j),
           \/ Create(i) \/ CreateFails(i) \/ Complete(i) \/ CompleteFails(i)
           \/ Return(i) \/ RefreshFails(i) \/ MarkFailed(i) \/ MarkingFails(i)
    PROVE  \A j \in Id : Settled(j)'
<1>1. /\ handler[i].pc # "done" /\ reply[i] = "none"
      /\ Fault \/ NoFault
    BY DEF Create, CreateFails, Complete, CompleteFails, Return, RefreshFails,
           MarkFailed, MarkingFails, At, NoFault, IInv, Inv, Lifecycle
<1>2. \A j \in Id : j # i => status'[j] = status[j] /\ reply'[j] = reply[j]
    BY DEF Create, CreateFails, Complete, CompleteFails, Return, RefreshFails,
           MarkFailed, MarkingFails, Answered, tables, IInv, TypeOK
<1>3. ASSUME NEW pc \in Pcs, GoTo(i, pc), Settled(i)'
      PROVE  \A j \in Id : Settled(j)'
    BY <1>1, <1>2, <1>3, GoesTo, SettledOthers DEF IInv
<1>4. CASE Create(i) \/ Complete(i)
    <2>1. PICK pc \in {"asking", "refreshing"} : GoTo(i, pc)
        BY <1>4 DEF Create, Complete
    <2>2. handler'[i].pc = pc /\ handler'[i].usable = handler[i].usable
        BY <2>1, GoesTo DEF IInv, Pcs
    <2>3. reply'[i] = "none" /\ handler[i].usable
        BY <1>1, <1>4 DEF Create, Complete, At, Settled
    <2> QED
        BY <1>3, <2>1, <2>2, <2>3 DEF Settled, At, Pcs
<1>5. CASE (CompleteFails(i) /\ Fault) \/ RefreshFails(i)
    BY <1>2, <1>5, SettledBreaking DEF CompleteFails, RefreshFails
<1>6. CASE CompleteFails(i) /\ ~Storable(handler[i].report)
    <2>1. /\ RaiseBroken(i) /\ reply'[i] = "none"
          /\ handler[i] \in Handlers /\ handler \in [Id -> Handlers]
        BY <1>1, <1>6 DEF CompleteFails, IInv, TypeOK
    <2>2. handler'[i] = [handler[i] EXCEPT !.pc = "failing", !.usable = FALSE]
        BY <2>1 DEF RaiseBroken
    <2>3. handler'[i].pc = "failing" /\ handler'[i].report = handler[i].report
        BY <2>1, <2>2 DEF Handlers
    <2>4. Settled(i)'
        BY <1>6, <2>1, <2>3 DEF Settled, Excused, Storable
    <2>5. \A j \in Id : j # i => handler'[j] = handler[j]
        BY <2>1, Breaks DEF IInv
    <2> QED
        BY <1>1, <1>2, <2>4, <2>5, SettledOthers
<1>7. CASE Return(i) \/ MarkFailed(i)
    <2>1. GoTo(i, "done")
        BY <1>7 DEF Return, MarkFailed, Answered
    <2>2. handler'[i].pc = "done"
        BY <2>1, GoesTo DEF IInv, Pcs
    <2>3. status'[i] \in Terminal
        BY <1>7 DEF Return, MarkFailed, At, tables, Terminal, IInv, TypeOK, Inv, Lifecycle
    <2> QED
        BY <1>3, <2>1, <2>2, <2>3 DEF Settled, At, Terminal, Pcs
<1>8. CASE CreateFails(i) \/ MarkingFails(i)
    <2>1. GoTo(i, "done")
        BY <1>8 DEF CreateFails, MarkingFails, Answered
    <2>2. /\ handler'[i].pc = "done"
          /\ handler'[i].requests = handler[i].requests
          /\ handler'[i].report = handler[i].report
        BY <2>1, GoesTo DEF IInv, Pcs
    <2>3. \/ faults' > 0
          \/ UNCHANGED faults /\ At(i, "failing") /\ ~handler[i].usable
          \/ UNCHANGED status /\ At(i, "new")
        BY <1>8, InvestigationAssumption
        DEF CreateFails, MarkingFails, Fault, NoFault, IInv, TypeOK
    <2>4. Excused(i)' \/ status'[i] = "absent"
        BY <2>2, <2>3 DEF Settled, Excused, Storable, IInv, Inv, Lifecycle, At
    <2> QED
        BY <1>3, <2>1, <2>2, <2>4 DEF Settled, At, Pcs
<1> QED
    BY <1>4, <1>5, <1>6, <1>7, <1>8 DEF CompleteFails

(* A crash is a fault, and the others do not touch the handlers.           *)
LEMMA SettledFromOutside ==
    ASSUME IInv, \A j \in Id : Settled(j),
           \/ Crash \/ (\E i \in Id : Debug(i)) \/ (\E e \in EventId : Ingest(e))
           \/ UNCHANGED vars
    PROVE  \A j \in Id : Settled(j)'
<1>1. CASE Crash
    <2>1. faults' > 0
        BY <1>1, InvestigationAssumption DEF Crash, Fault, IInv, TypeOK
    <2>2. ASSUME NEW j \in Id
          PROVE  handler'[j].pc \notin {"failing", "done"} => handler'[j].usable
        <3>1. handler[j] \in Handlers
            BY DEF IInv, TypeOK
        <3>2. \/ handler'[j] = handler[j]
              \/ handler'[j] = [handler[j] EXCEPT !.pc = "done"]
            BY <1>1 DEF Crash
        <3> QED
            BY <3>1, <3>2 DEF Settled, Handlers
    <2> QED
        BY <2>1, <2>2 DEF Settled, Excused
<1>2. CASE UNCHANGED <<handler, status, reply, faults>>
    BY <1>2 DEF Settled, Excused, At
<1> QED
    BY <1>1, <1>2 DEF Debug, Ingest, vars, tables

(* Only faults, refused audit records and refused reports leave a row      *)
(* running.                                                                *)
THEOREM SettledHolds == Spec => []SettledUnlessBroken
<1> DEFINE AllSettled == \A i \in Id : Settled(i)
<1>1. Init => AllSettled
    BY DEF Init, Fresh, Settled, At
<1>2. IInv /\ AllSettled /\ [Next]_vars => AllSettled'
    BY SettledByAgent, SettledByEndpoint, SettledFromOutside DEF Next, Handling
<1>3. AllSettled => SettledUnlessBroken
    BY DEF Settled, Excused, SettledUnlessBroken
<1> QED
    BY <1>1, <1>2, <1>3, Invariance, PTL DEF Spec

-----------------------------------------------------------------------------
(* What the audit table misses.                                            *)
(*                                                                         *)
(* ExecutionsRecorded speaks of handlers that have replied; what keeps it  *)
(* true is the balance of a running one: a function that was called is     *)
(* recorded before anything else happens, or the handler has failed.       *)
Results(i) == {n \in AgentRows(i) : audit[i][n].outcome = "result"}

Balance(i) == executed[i] - Cardinality(Results(i))

Failed(i) == handler[i].pc \in {"failing", "done"} /\ status[i] # "completed"

Booked(i) ==
    Balance(i) \in IF At(i, "auditing") THEN {1} ELSE IF Failed(i) THEN 0..1 ELSE {0}

(* The records of an investigation are finitely many.                      *)
LEMMA ResultsCounted ==
    ASSUME TypeOK, NEW i \in Id
    PROVE  /\ IsFiniteSet(Results(i)) /\ Cardinality(Results(i)) \in Nat
           /\ Balance(i) \in Int
<1>1. Len(audit[i]) \in Nat /\ DOMAIN audit[i] = 1..Len(audit[i])
    BY LenProperties DEF TypeOK
<1>2. IsFiniteSet(1..Len(audit[i])) /\ Results(i) \in SUBSET (1..Len(audit[i]))
    BY <1>1, FS_Interval DEF Results, AgentRows
<1>3. IsFiniteSet(Results(i)) /\ Cardinality(Results(i)) \in Nat
    BY <1>2, FS_Subset, FS_CardinalityType
<1>4. executed[i] \in Nat
    BY DEF TypeOK
<1> QED
    BY <1>3, <1>4 DEF Balance

(* Only a result of the agent's is counted.                                *)
LEMMA RecordedResults ==
    ASSUME TypeOK, NEW i \in Id, NEW by \in {"agent", "debug"},
           NEW outcome \in {"result", "tool_not_allowed", "invalid_arguments"},
           NEW ids \in SUBSET EventId, Recorded(i, by, outcome, ids), UNCHANGED executed
    PROVE  /\ \A j \in Id : j # i => audit'[j] = audit[j]
           /\ Balance(i)' = IF by = "agent" /\ outcome = "result" THEN Balance(i) - 1
                                                                ELSE Balance(i)
<1> DEFINE new == Len(audit[i]) + 1
<1>1. /\ \A j \in Id : j # i => audit'[j] = audit[j]
      /\ Len(audit[i]) \in Nat /\ DOMAIN audit[i] = 1..Len(audit[i])
      /\ DOMAIN audit'[i] = 1..new
      /\ \A n \in 1..Len(audit[i]) : audit'[i][n] = audit[i][n]
      /\ audit'[i][new].by = by /\ audit'[i][new].outcome = outcome
    BY RecordedRow
<1>2. IsFiniteSet(Results(i)) /\ Cardinality(Results(i)) \in Nat /\ executed[i] \in Nat
    BY ResultsCounted DEF TypeOK
<1>3. CASE by = "agent" /\ outcome = "result"
    <2>1. Results(i)' = Results(i) \cup {new} /\ new \notin Results(i)
        BY <1>1, <1>3 DEF Results, AgentRows
    <2>2. Cardinality(Results(i)') = Cardinality(Results(i)) + 1
        BY <1>2, <2>1, FS_AddElement
    <2>3. Cardinality(Results(i))' = Cardinality(Results(i)) + 1
        BY <2>2
    <2>4. Balance(i)' = Balance(i) - 1
        <3> HIDE DEF new, Results
        <3> QED
            BY <1>2, <2>3 DEF Balance
    <2> QED
        BY <1>1, <1>3, <2>4
<1>4. CASE ~(by = "agent" /\ outcome = "result")
    <2>1. Results(i)' = Results(i)
        BY <1>1, <1>4 DEF Results, AgentRows
    <2> QED
        BY <1>1, <1>4, <2>1 DEF Balance
<1> QED
    BY <1>3, <1>4

(* An investigation that a step does not touch stays booked.               *)
LEMMA BookedOthers ==
    ASSUME NEW i \in Id, \A j \in Id : Booked(j), Booked(i)',
           \A j \in Id : j # i =>
              /\ handler'[j].pc = handler[j].pc /\ status'[j] = status[j]
              /\ audit'[j] = audit[j] /\ executed'[j] = executed[j]
    PROVE  \A j \in Id : Booked(j)'
<1>1. ASSUME NEW j \in Id, j # i
      PROVE  Booked(j)'
    BY <1>1 DEF Booked, Balance, Results, AgentRows, Failed, At
<1> QED
    BY <1>1

(* Nor does a step matter that neither executes nor records anything, that *)
(* neither comes from a call nor leads to one, and that takes no failed    *)
(* investigation back.                                                     *)
LEMMA BookedKeeps ==
    ASSUME NEW i \in Id, \A j \in Id : Booked(j), UNCHANGED <<audit, executed>>,
           \A j \in Id : j # i => handler'[j] = handler[j] /\ status'[j] = status[j],
           ~At(i, "auditing"), ~At(i, "auditing")', Failed(i) => Failed(i)'
    PROVE  \A j \in Id : Booked(j)'
<1>1. Balance(i)' = Balance(i)
    BY DEF Balance, Results, AgentRows
<1>2. Booked(i)'
    BY <1>1 DEF Booked
<1> QED
    BY <1>2, BookedOthers

(* The agent's steps.                                                      *)
LEMMA BookedByAgent ==
    ASSUME IInv, NEW i \in Id, \A j \in Id : Booked(j),
           \/ AsksForTools(i) \/ Reports(i) \/ SaysNothing(i) \/ ProviderFails(i)
    PROVE  \A j \in Id : Booked(j)'
<1>1. /\ At(i, "asking") /\ UNCHANGED <<status, audit, executed>>
      /\ ~At(i, "auditing") /\ ~Failed(i)
    BY DEF AsksForTools, Reports, SaysNothing, ProviderFails, Responds, At, tables, Failed
<1>2. ASSUME \A j \in Id : j # i => handler'[j] = handler[j],
             handler'[i].pc # "auditing"
      PROVE  \A j \in Id : Booked(j)'
    BY <1>1, <1>2, BookedKeeps DEF At
<1>3. CASE Raise(i)
    BY <1>2, <1>3, GoesTo DEF IInv, Raise, Pcs
<1>4. CASE AsksForTools(i)
    <2>1. ASSUME NEW n \in 1..MaxRequests, NEW requests \in [1..n -> Asked],
                 handler' = [handler EXCEPT
                     ![i] = [@ EXCEPT !.pc = "executing", !.requests = requests]]
          PROVE  \A j \in Id : Booked(j)'
        BY <1>2, <2>1 DEF IInv, TypeOK, Handlers
    <2> QED
        BY <1>3, <1>4, <2>1 DEF AsksForTools
<1>5. CASE Reports(i)
    <2>1. ASSUME NEW cited \in SUBSET Citation,
                 handler' = [handler EXCEPT
                     ![i] = [@ EXCEPT !.pc = "completing", !.report = cited]]
          PROVE  \A j \in Id : Booked(j)'
        BY <1>2, <2>1 DEF IInv, TypeOK, Handlers
    <2> QED
        BY <1>3, <1>5, <2>1 DEF Reports
<1> QED
    BY <1>3, <1>4, <1>5 DEF SaysNothing, ProviderFails

(* The steps of execute_agent_tool.                                        *)
LEMMA BookedByTool ==
    ASSUME IInv, NEW i \in Id, \A j \in Id : Booked(j),
           CallTool(i) \/ ToolRaises(i) \/ AuditResult(i) \/ RefuseTool(i) \/ AuditFails(i)
    PROVE  \A j \in Id : Booked(j)'
<1> USE DEF IInv
<1>1. UNCHANGED status /\ status[i] = "running" /\ Balance(i) \in Int
      /\ handler[i].pc \in {"executing", "auditing"}
    BY ResultsCounted
    DEF CallTool, ToolRaises, AuditResult, RefuseTool, AuditFails, Executing, tables,
        At, Inv, Lifecycle
<1>2. Balance(i) = IF At(i, "auditing") THEN 1 ELSE 0
    BY <1>1 DEF Booked, Failed, At
<1>3. ASSUME \A j \in Id : j # i =>
                /\ handler'[j] = handler[j]
                /\ audit'[j] = audit[j] /\ executed'[j] = executed[j],
             \/ handler'[i].pc = "failing" /\ Balance(i)' \in 0..1
             \/ handler'[i].pc = "auditing" /\ Balance(i)' = 1
             \/ handler'[i].pc \in {"asking", "executing"} /\ Balance(i)' = 0
      PROVE  \A j \in Id : Booked(j)'
    <2>1. Booked(i)'
        BY <1>1, <1>3 DEF Booked, Failed, At
    <2> QED
        BY <1>1, <1>3, <2>1, BookedOthers
<1>4. ASSUME executed' = [executed EXCEPT ![i] = executed[i] + 1], UNCHANGED audit
      PROVE  /\ Balance(i)' = Balance(i) + 1
             /\ \A j \in Id : j # i => executed'[j] = executed[j]
    <2>1. executed[i] \in Nat /\ executed'[i] = executed[i] + 1
        BY <1>4 DEF TypeOK
    <2>2. Results(i)' = Results(i) /\ Cardinality(Results(i)) \in Nat
        BY <1>4, ResultsCounted DEF Results, AgentRows
    <2>3. Balance(i)' = Balance(i) + 1
        BY <2>1, <2>2 DEF Balance
    <2> QED
        BY <1>4, <2>3 DEF TypeOK
<1>5. CASE CallTool(i)
    <2>1. At(i, "executing") /\ UNCHANGED audit
          /\ executed' = [executed EXCEPT ![i] = executed[i] + 1]
        BY <1>5 DEF CallTool, Executing, tables
    <2>2. PICK ids \in ToolResults :
              handler' = [handler EXCEPT
                  ![i] = [@ EXCEPT !.pc = "auditing", !.result = ids]]
        BY <1>5 DEF CallTool
    <2>3. /\ \A j \in Id : j # i => handler'[j] = handler[j]
          /\ handler'[i].pc = "auditing"
        BY <2>2 DEF TypeOK, Handlers
    <2>4. Balance(i)' = 1
        BY <1>2, <1>4, <2>1 DEF At
    <2> QED
        BY <1>3, <1>4, <2>1, <2>3, <2>4
<1>6. CASE ToolRaises(i)
    <2>1. /\ At(i, "executing") /\ UNCHANGED audit
          /\ executed' = [executed EXCEPT ![i] = executed[i] + 1]
          /\ Raise(i) \/ RaiseBroken(i)
        BY <1>6 DEF ToolRaises, Executing, tables
    <2>2. /\ \A j \in Id : j # i => handler'[j] = handler[j]
          /\ handler'[i].pc = "failing"
        BY <2>1, GoesTo, Breaks DEF Raise, Pcs
    <2>3. Balance(i)' = 1
        BY <1>2, <1>4, <2>1 DEF At
    <2> QED
        BY <1>3, <1>4, <2>1, <2>2, <2>3
<1>7. CASE AuditResult(i)
    <2>1. /\ At(i, "auditing") /\ Recorded(i, "agent", "result", handler[i].result)
          /\ UNCHANGED executed /\ handler' = [handler EXCEPT ![i] = Proceeding(handler[i])]
          /\ handler[i].result \in SUBSET EventId
        BY <1>7 DEF AuditResult, TypeOK, Handlers
    <2>2. handler'[i].pc \in {"asking", "executing"}
        <3>1. Proceeding(handler[i]).pc \in {"asking", "executing"}
            BY DEF Proceeding, TypeOK, Handlers
        <3> QED
            BY <2>1, <3>1 DEF TypeOK
    <2>3. \A j \in Id : j # i => handler'[j] = handler[j]
        BY <2>1 DEF TypeOK
    <2>4. /\ Balance(i)' = 0
          /\ \A j \in Id : j # i => audit'[j] = audit[j]
        BY <1>1, <1>2, <2>1, RecordedResults
    <2> QED
        BY <1>3, <2>1, <2>2, <2>3, <2>4
<1>8. CASE RefuseTool(i) \/ AuditFails(i)
    <2>1. /\ UNCHANGED executed
          /\ Raise(i) \/ RaiseBroken(i)
          /\ \/ UNCHANGED audit
             \/ At(i, "auditing") /\ Recorded(i, "agent", "result", handler[i].result)
             \/ Recorded(i, "agent", "tool_not_allowed", {})
             \/ Recorded(i, "agent", "invalid_arguments", {})
        BY <1>8 DEF RefuseTool, AuditFails
    <2>2. /\ \A j \in Id : j # i => handler'[j] = handler[j]
          /\ handler'[i].pc = "failing"
        BY <2>1, GoesTo, Breaks DEF Raise, Pcs
    <2>3. {} \in SUBSET EventId /\ handler[i].result \in SUBSET EventId
        BY DEF TypeOK, Handlers
    <2>4. CASE UNCHANGED audit
        <3>1. Balance(i)' = Balance(i)
            BY <2>1, <2>4 DEF Balance, Results, AgentRows
        <3> QED
            BY <1>2, <1>3, <2>1, <2>2, <2>4, <3>1
    <2>5. CASE At(i, "auditing") /\ Recorded(i, "agent", "result", handler[i].result)
        <3>1. /\ Balance(i)' = Balance(i) - 1
              /\ \A j \in Id : j # i => audit'[j] = audit[j]
            BY <2>1, <2>3, <2>5, RecordedResults
        <3> QED
            BY <1>2, <1>3, <2>1, <2>2, <2>5, <3>1
    <2>6. ASSUME NEW outcome \in {"tool_not_allowed", "invalid_arguments"},
                 Recorded(i, "agent", outcome, {})
          PROVE  \A j \in Id : Booked(j)'
        <3>1. /\ Balance(i)' = Balance(i)
              /\ \A j \in Id : j # i => audit'[j] = audit[j]
            BY <2>1, <2>3, <2>6, RecordedResults
        <3> QED
            BY <1>2, <1>3, <2>1, <2>2, <3>1
    <2> QED
        BY <2>1, <2>4, <2>5, <2>6
<1> QED
    BY <1>5, <1>6, <1>7, <1>8

(* The steps of create_investigation around the agent call no tool.        *)
LEMMA BookedByEndpoint ==
    ASSUME IInv, NEW i \in Id, \A j \in Id : Booked(j),
           \/ Create(i) \/ CreateFails(i) \/ Complete(i) \/ CompleteFails(i)
           \/ Return(i) \/ RefreshFails(i) \/ MarkFailed(i) \/ MarkingFails(i)
    PROVE  \A j \in Id : Booked(j)'
<1> USE DEF IInv
<1>1. UNCHANGED <<audit, executed>> /\ ~At(i, "auditing")
    BY DEF Create, CreateFails, Complete, CompleteFails, Return, RefreshFails,
           MarkFailed, MarkingFails, At, tables
<1>2. \A j \in Id : j # i => status'[j] = status[j]
    BY DEF Create, CreateFails, Complete, CompleteFails, Return, RefreshFails,
           MarkFailed, MarkingFails, tables, TypeOK
<1>3. CASE At(i, "failing")
    <2>1. GoTo(i, "done")
        BY <1>3 DEF Create, CreateFails, Complete, CompleteFails, Return, RefreshFails,
                    MarkFailed, MarkingFails, Answered, At
    <2>2. /\ \A j \in Id : j # i => handler'[j] = handler[j]
          /\ handler'[i].pc = "done"
        BY <2>1, GoesTo DEF Pcs
    <2>3. status'[i] = status[i] \/ status'[i] = "failed"
        BY <1>3 DEF Create, CreateFails, Complete, CompleteFails, Return, RefreshFails,
                    MarkFailed, MarkingFails, At, tables, TypeOK
    <2> QED
        BY <1>1, <1>2, <2>2, <2>3, BookedKeeps DEF Failed, At
<1>4. CASE ~At(i, "failing")
    <2>1. \/ RaiseBroken(i)
          \/ \E pc \in {"asking", "refreshing", "done"} : GoTo(i, pc)
        BY <1>4 DEF Create, CreateFails, Complete, CompleteFails, Return, RefreshFails,
                    MarkFailed, MarkingFails, Answered
    <2>2. /\ \A j \in Id : j # i => handler'[j] = handler[j]
          /\ handler'[i].pc # "auditing"
        BY <2>1, GoesTo, Breaks DEF Pcs
    <2>3. ~Failed(i)
        BY <1>4 DEF Create, CreateFails, Complete, CompleteFails, Return, RefreshFails,
                    MarkFailed, MarkingFails, Failed, At
    <2> QED
        BY <1>1, <1>2, <2>2, <2>3, BookedKeeps DEF At
<1> QED
    BY <1>3, <1>4

(* Nor do the steps of others: the debug endpoint's records are not of the *)
(* agent's calls, and a crash fails the investigation at the latest.       *)
LEMMA BookedFromOutside ==
    ASSUME IInv, \A j \in Id : Booked(j),
           \/ Crash \/ (\E i \in Id : Debug(i)) \/ (\E e \in EventId : Ingest(e))
           \/ UNCHANGED vars
    PROVE  \A j \in Id : Booked(j)'
<1> USE DEF IInv
<1>1. CASE Crash
    <2>1. SUFFICES ASSUME NEW j \in Id
                   PROVE  Booked(j)'
        OBVIOUS
    <2>2. UNCHANGED <<status, audit, executed>>
        BY <1>1 DEF Crash, tables
    <2>3. Balance(j)' = Balance(j)
        BY <2>2 DEF Balance, Results, AgentRows
    <2>4. handler'[j].pc = handler[j].pc \/ handler'[j].pc = "done"
        BY <1>1 DEF Crash, TypeOK, Handlers
    <2>5. At(j, "auditing") => status[j] = "running"
        BY DEF Inv, Lifecycle, At
    <2> QED
        BY <2>2, <2>3, <2>4, <2>5 DEF Booked, Failed, At
<1>2. ASSUME NEW i \in Id, Debug(i)
      PROVE  \A j \in Id : Booked(j)'
    <2>1. PICK row \in AuditRow : Recorded(i, "debug", row.outcome, row.ids)
        BY <1>2 DEF Debug
    <2>2. UNCHANGED <<status, handler, executed>>
        BY <1>2 DEF Debug
    <2>3. /\ Balance(i)' = Balance(i)
          /\ \A j \in Id : j # i => audit'[j] = audit[j]
        BY <2>1, <2>2, RecordedResults DEF AuditRow
    <2>4. Booked(i)'
        BY <2>2, <2>3 DEF Booked, Failed, At
    <2> QED
        BY <2>2, <2>3, <2>4, BookedOthers
<1>3. CASE UNCHANGED <<status, audit, handler, executed>>
    BY <1>3 DEF Booked, Balance, Results, AgentRows, Failed, At
<1> QED
    BY <1>1, <1>2, <1>3 DEF Ingest, vars, tables

(* The audit trail is complete: of the tool functions the agent of a       *)
(* completed investigation called, each has its record; of any other at    *)
(* most one lacks it.                                                      *)
THEOREM ExecutionsAreRecorded == Spec => []ExecutionsRecorded
<1> DEFINE AllBooked == \A i \in Id : Booked(i)
<1>1. Init => AllBooked
    <2>1. SUFFICES ASSUME Init, NEW i \in Id
                   PROVE  Booked(i)
        OBVIOUS
    <2>2. audit[i] = <<>> /\ executed[i] = 0 /\ handler[i].pc = "new"
        BY <2>1 DEF Init, Fresh
    <2>3. Results(i) = {}
        BY <2>2 DEF Results, AgentRows
    <2>4. Cardinality({}) = 0
        BY FS_EmptySet
    <2> QED
        BY <2>2, <2>3, <2>4 DEF Booked, Balance, Failed, At
<1>2. IInv /\ AllBooked /\ [Next]_vars => AllBooked'
    BY BookedByAgent, BookedByTool, BookedByEndpoint, BookedFromOutside DEF Next, Handling
<1>3. IInv /\ AllBooked => ExecutionsRecorded
    <2>1. SUFFICES ASSUME IInv, AllBooked, NEW i \in Id, reply[i] # "none"
                   PROVE  Balance(i) \in IF status[i] = "completed" THEN {0} ELSE 0..1
        BY DEF ExecutionsRecorded, Balance, Results
    <2>2. At(i, "done")
        BY <2>1 DEF IInv, Inv, Lifecycle
    <2> QED
        BY <2>1, <2>2 DEF Booked, Failed, At
<1> QED
    BY <1>1, <1>2, <1>3, Invariance, PTL DEF Spec
================================================================================
