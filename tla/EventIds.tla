------------------------------- MODULE EventIds -------------------------------
(***************************************************************************)
(* The ids that may be cited.  A tool's result is a JSON value; the agent  *)
(* (backend/app/agent.py) searches it for ids that a report may cite, the  *)
(* mock provider (backend/app/llm/mock_provider.py) for ids to cite, each  *)
(* with a recursion of its own.                                            *)
(*                                                                         *)
(* A recursion over values is a recursive function of how deep they are    *)
(* nested: at every depth it is the function on the values of that depth,  *)
(* and calls the one below for their children.                             *)
(***************************************************************************)
EXTENDS Naturals, SequencesExt

CONSTANTS
    Keys,           \* the keys of dicts
    Texts,          \* the strings in a result
    Depth           \* bound: how deep a result is nested

ASSUME EventIdsAssumption == Depth \in Nat

(* JSON values.  The items of a dict are in insertion order.               *)
Item(key, child) == [key |-> key, child |-> child]
Dict(items) == [kind |-> "dict", items |-> items]
List(items) == [kind |-> "list", items |-> items]
Text(text) == [kind |-> "str", text |-> text]
Flag(value) == [kind |-> "bool", value |-> value]
Number == [kind |-> "number"]

Atoms == {Number} \cup [kind : {"str"}, text : Texts] \cup [kind : {"bool"}, value : BOOLEAN]
Lists(children) == [kind : {"list"}, items : Seq(children)]
Dicts(children) == [kind : {"dict"}, items : Seq([key : Keys, child : children])]

Json[depth \in 0..Depth] ==
    IF depth = 0 THEN Atoms
    ELSE LET children == Json[depth - 1]
         IN  Atoms \cup Lists(children) \cup Dicts(children)

(* [x for x in s if x in kept].                                            *)
Among(s, kept) == FlattenSeq([i \in DOMAIN s |-> IF s[i] \in kept THEN <<s[i]>> ELSE <<>>])

-----------------------------------------------------------------------------
(* Mutant of IsId: a key that no tool uses.                                *)
IsNamedId(key, child) == key = "id" /\ child.kind = "str"

IsId(key, child) == key = "event_id" /\ child.kind = "str"

AreIds(key, child) == key = "event_ids" /\ child.kind = "list"

(* item for item in child if isinstance(item, str).                        *)
Strings(child) ==
    LET strings == Among(child.items, {item \in ToSet(child.items) : item.kind = "str"})
    IN  [i \in DOMAIN strings |-> strings[i].text]

(* The set of ids, wherever a key event_id or event_ids holds them.        *)
IdSets[depth \in 0..Depth] ==
    LET below == IdSets[depth - 1] IN
    [value \in Json[depth] |->
        CASE value.kind = "dict" ->
               UNION {LET key == item.key
                          child == item.child
                      IN  IF IsId(key, child) THEN {child.text}
                          ELSE IF AreIds(key, child) THEN ToSet(Strings(child))
                          ELSE below[child] : item \in ToSet(value.items)}
          [] value.kind = "list" -> UNION {below[child] : child \in ToSet(value.items)}
          [] OTHER -> {}]

extract_tool_event_ids(value) == IdSets[Depth][value]

(* Mutant of Unrepeated: the last occurrence of each.                      *)
LastOfEach(ids) ==
    LET keys[n \in 0..Len(ids)] ==
            IF n = 0 THEN <<>>
            ELSE LET before == keys[n - 1]
                 IN  Append(Among(before, ToSet(before) \ {ids[n]}), ids[n])
    IN  keys[Len(ids)]

(* list(dict.fromkeys(ids)): the first occurrence of each.                 *)
Unrepeated(ids) ==
    LET keys[n \in 0..Len(ids)] ==
            IF n = 0 THEN <<>>
            ELSE LET before == keys[n - 1]
                 IN  IF ids[n] \in ToSet(before) THEN before ELSE Append(before, ids[n])
    IN  keys[Len(ids)]

(* The sequence of ids, in the order of the result.                        *)
IdLists[depth \in 0..Depth] ==
    LET below == IdLists[depth - 1] IN
    [value \in Json[depth] |->
        CASE value.kind = "dict" ->
               LET event_ids[n \in 0..Len(value.items)] ==
                       IF n = 0 THEN <<>>
                       ELSE LET key == value.items[n].key
                                child == value.items[n].child
                            IN  event_ids[n - 1] \o
                                    IF IsId(key, child) THEN <<child.text>>
                                    ELSE IF AreIds(key, child) THEN Strings(child)
                                    ELSE below[child]
               IN  Unrepeated(event_ids[Len(value.items)])
          [] value.kind = "list" ->
               LET event_ids[n \in 0..Len(value.items)] ==
                       IF n = 0 THEN <<>> ELSE event_ids[n - 1] \o below[value.items[n]]
               IN  Unrepeated(event_ids[Len(value.items)])
          [] OTHER -> <<>>]

extract_event_ids(value) == IdLists[Depth][value]

-----------------------------------------------------------------------------
(* Does validate_report_evidence return, or raise EvidenceValidationError? *)
(* (All citations here have the shape of an id.)                           *)
validate_report_evidence(cited_event_ids, allowed_event_ids) ==
    /\ cited_event_ids \subseteq allowed_event_ids
    /\ allowed_event_ids # {} => cited_event_ids # {}
=============================================================================
