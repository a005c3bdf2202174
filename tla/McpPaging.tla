----------------------------- MODULE McpPaging -----------------------------
(* The MCP server answers in pages (runtime/mcp): a call returns what fits   *)
(* its limit and the response budget, and a signed cursor from which another *)
(* call continues (common.ts).  Workflows, events and workers are paged by   *)
(* their sort keys while rows change (workflows.ts, tasks.ts, workers.ts),   *)
(* sections of an inspection under a fingerprint, payloads by offset.        *)
(*                                                                           *)
(* A call reads at one moment.  Time is the number of writes.                *)
EXTENDS Integers, FiniteSets, SequencesExt

CONSTANTS
    Reader,
    Item,            \* ids of rows: a set of numbers, for their order
    Size,            \* the bytes of each row in an answer
    Matching,        \* the workers on which the wanted task is registered
    MaxResponse,     \* MAX_RESPONSE_BYTES
    Limits,          \* the limits a call may ask for
    ScanMax,         \* workers scanned by one call
    Chunk,           \* characters of payload in an answer
    MaxLength,       \* bound: characters of a field
    MaxWrites        \* bound: writes

ASSUME McpAssumption ==
    /\ Item \subseteq Nat /\ IsFiniteSet(Item) /\ Size \in [Item -> 1 .. MaxResponse] /\ Matching \subseteq Item
    /\ Limits \subseteq Nat \ {0} /\ ScanMax \in Nat \ {0} /\ Chunk \in Nat \ {0}
    /\ MaxResponse \in Nat /\ MaxLength \in Nat /\ MaxWrites \in Nat

VARIABLES
    listed,          \* time of the last activity and state of each row there is
    fields,          \* length of each payload field, NoField if it has none
    visible,         \* the rows each reader may see
    writes,
    held,            \* the cursor a client holds
    answer           \* the answer just given

mcpVars == <<listed, fields, visible, writes, held, answer>>

NoField == -1
Gone == [time |-> NoField, offline |-> FALSE]
NoAnswer == [tool |-> "none"]
NoCursor == [tool |-> "none"]
FirstPage == <<>>
Tool == {"search_workflows", "history", "list_workers", "inspect_workflow",
         "inspect_worker", "payload"}

McpInit ==
    /\ listed = [i \in Item |-> [time |-> 0, offline |-> FALSE]]
    /\ fields = <<MaxLength, MaxLength>>
    /\ visible = [a \in Reader |-> Item]
    /\ writes = 0 /\ held = NoCursor /\ answer = NoAnswer

-----------------------------------------------------------------------------
(* A list is the set of its rows.  Each has its order, a key that ascends.   *)
Characters == UNION {{f} \X (0 .. fields[f] - 1) : f \in DOMAIN fields}

KeyOf(tool) ==
    CASE tool = "search_workflows" -> [i \in Item |-> <<-listed[i].time, i>>]
      [] tool = "history" -> [i \in Item |-> <<listed[i].time, i>>]
      [] tool = "list_workers" -> [i \in Item |-> <<IF listed[i].offline THEN 1 ELSE 0, i>>]
      [] tool \in {"inspect_workflow", "inspect_worker"} -> [i \in Item |-> <<0, i>>]
      [] tool = "payload" -> [c \in Characters |-> c]

Before(k, l) == \E n \in DOMAIN k : k[n] < l[n] /\ \A m \in 1 .. n - 1 : k[m] = l[m]

(* ORDER BY and LIMIT: the number of rows before a row, the rows that have   *)
(* fewer than n before them, the last one, and all of them as a sequence.    *)
PlaceOf(S, key, i) == Cardinality({j \in S : Before(key[j], key[i])})
FirstOf(S, key, n) == {i \in S : PlaceOf(S, key, i) < n}
LastOf(S, key) == CHOOSE i \in S : \A j \in S : ~Before(key[i], key[j])
InOrder(S, key) == [k \in 1 .. Cardinality(S) |-> CHOOSE i \in S : PlaceOf(S, key, i) = k - 1]

Found(tool, account, end) ==
    IF tool = "payload" THEN Characters
    ELSE {i \in visible[account] :
            listed[i] # Gone /\ (tool = "search_workflows" => listed[i].time <= end)}

(* Mutant: rows with the cursor's sort key are skipped. *)
BeyondTime(tool, i, position) == KeyOf(tool)[i][1] > position[1]

Beyond(tool, i, position) == Before(position, KeyOf(tool)[i])

After(tool, account, end, position) ==
    {i \in Found(tool, account, end) : position = FirstPage \/ Beyond(tool, i, position)}

SizeOf(S) == SumFunctionOnSet(Size, S)

(* Results.page(): at most `limit` rows, and as many as the budget allows;   *)
(* the cursor names the last row that is returned.                           *)
Page(tool, found, limit) ==
    LET Fits(n) == SizeOf(FirstOf(found, KeyOf(tool), n)) <= MaxResponse
        most == CHOOSE n \in 0 .. limit : Fits(n) /\ \A m \in n + 1 .. limit : ~Fits(m)
        items == FirstOf(found, KeyOf(tool), most)
    IN  [given |-> items,
         next |-> IF items \notin {found, {}} THEN KeyOf(tool)[LastOf(items, KeyOf(tool))] ELSE FirstPage]

(* WorkerTools.list(): the scan ends with one worker too many, with the last *)
(* worker, or after ScanMax; then the cursor names the last worker scanned.  *)
PageOfWorkers(account, position, limit) ==
    LET key == KeyOf("list_workers")
        scan == FirstOf(After("list_workers", account, 0, position), key, ScanMax)
        page == Page("list_workers", scan \cap Matching, limit)
    IN  IF page.next = FirstPage /\ Cardinality(scan) = ScanMax
        THEN [page EXCEPT !.next = key[LastOf(scan, key)]] ELSE page

(* TaskTools.inspect(): the next characters, from one offset on.  The cursor *)
(* names the next field if one ends with the chunk, even if that is empty.   *)
PageOfPayload(position) ==
    LET key == KeyOf("payload")
        given == FirstOf({c \in Characters : position = FirstPage \/ ~Before(c, position)}, key, Chunk)
        last == LastOf(given, key)
        next == IF last[2] + 1 < fields[last[1]] THEN <<last[1], last[2] + 1>> ELSE <<last[1] + 1, 0>>
    IN  [given |-> given,
         next |-> IF Cardinality(given) < Chunk \/ next[1] > Len(fields) THEN FirstPage ELSE next]

PagesOf(tool, account, end, position, limit) ==
    CASE tool \in {"search_workflows", "history", "inspect_workflow", "inspect_worker"} ->
            Page(tool, FirstOf(After(tool, account, end, position), KeyOf(tool), limit + 1), limit)
      [] tool = "list_workers" -> PageOfWorkers(account, position, limit)
      [] tool = "payload" -> PageOfPayload(position)

-----------------------------------------------------------------------------
(* The secret that signs the cursors of an account under what it may see.    *)
CursorSecret(account) == <<account, visible[account]>>

(* Cursors.resolve(): the signature, the tool, the selectors.                *)
Resolves(cursor, tool, account, limit) ==
    cursor.secret = CursorSecret(account) /\ cursor.tool = tool /\ cursor.limit = limit

(* The cursor and the answer also say, for the properties, what the calls of *)
(* this list have given since the first, and the time of that call.          *)
Answers(tool, account, limit, position, end, before, began, snapshot) ==
    LET page == PagesOf(tool, account, end, position, limit)
    IN  /\ answer' = [tool |-> tool, account |-> account, limit |-> limit, end |-> end, began |-> began,
                      given |-> before \o InOrder(page.given, KeyOf(tool)), next |-> page.next]
        /\ held' = IF answer'.next = FirstPage THEN NoCursor
                   ELSE [tool |-> tool, limit |-> limit, secret |-> CursorSecret(account),
                         position |-> answer'.next, end |-> end, snapshot |-> snapshot,
                         before |-> answer'.given, began |-> began]
    /\ UNCHANGED <<listed, fields, visible, writes>>

Call(tool, account, limit) ==
    Answers(tool, account, limit, FirstPage, writes, <<>>, writes, listed)

Continue(tool, account, limit) ==
    /\ held # NoCursor
    /\ Resolves(held, tool, account, limit)
    /\ tool = "inspect_worker" => held.snapshot = listed
    /\ Answers(tool, account, limit, held.position, held.end,
               held.before, held.began, held.snapshot)

(* After fifteen minutes.                                                    *)
CursorExpires ==
    /\ held # NoCursor
    /\ held' = NoCursor /\ answer' = NoAnswer
    /\ UNCHANGED <<listed, fields, visible, writes>>

-----------------------------------------------------------------------------
(* What happens to the data meanwhile.                                       *)
Written ==
    /\ writes < MaxWrites /\ writes' = writes + 1
    /\ answer' = NoAnswer
    /\ UNCHANGED held

Activity(i) ==
    /\ Written
    /\ listed' = [listed EXCEPT ![i].time = writes + 1]
    /\ UNCHANGED <<fields, visible>>

TurnsOver(i) ==
    /\ Written
    /\ listed[i] # Gone
    /\ listed' \in {[listed EXCEPT ![i].offline = ~@], [listed EXCEPT ![i] = Gone]}
    /\ UNCHANGED <<fields, visible>>

Rewrites(f, length) ==
    /\ Written
    /\ length # fields[f] /\ fields' = [fields EXCEPT ![f] = length]
    /\ UNCHANGED <<listed, visible>>

PolicyTurns(account, items) ==
    /\ Written
    /\ visible' = [visible EXCEPT ![account] = items]
    /\ UNCHANGED <<listed, fields>>

McpNext ==
    \/ \E tool \in Tool, account \in Reader, limit \in Limits :
            Call(tool, account, limit) \/ Continue(tool, account, limit)
    \/ CursorExpires
    \/ \E i \in Item : Activity(i) \/ TurnsOver(i)
    \/ \E f \in DOMAIN fields, length \in NoField .. MaxLength : Rewrites(f, length)
    \/ \E account \in Reader, items \in SUBSET Item : PolicyTurns(account, items)

McpSpec == McpInit /\ [][McpNext]_mcpVars

-----------------------------------------------------------------------------
(* All a list holds for an account, in order.                                *)
Wanted(tool, account, end) ==
    IF tool = "list_workers" THEN Found(tool, account, end) \cap Matching ELSE Found(tool, account, end)

Whole(tool, account, end) == InOrder(Wanted(tool, account, end), KeyOf(tool))

NoRepeats(s) == \A m, n \in DOMAIN s : s[m] = s[n] => m = n

(* Whoever follows the cursors of a list gets each row exactly once and in   *)
(* order, whatever the budget and the scan cut, if nothing is written        *)
(* meanwhile, and always of an inspection; whatever is written, no workflow  *)
(* comes twice (common.ts:124-143, 206-225, workflows.ts:183-195,            *)
(* tasks.ts:112-143, workers.ts:130-183, 199).                               *)
PagesAddUp ==
    answer # NoAnswer =>
        LET whole == Whole(answer.tool, answer.account, answer.end)
        IN  /\ (answer.began = writes \/ answer.tool = "inspect_worker") =>
                    /\ IsPrefix(answer.given, whole)
                    /\ answer.next = FirstPage => answer.given = whole
            /\ answer.tool = "search_workflows" => NoRepeats(answer.given)
=============================================================================
