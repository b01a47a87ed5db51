----------------------------- MODULE BridgeItems -----------------------------
(***************************************************************************)
(* How claude_bridge/event_mapper.rs makes items of the blocks the Claude   *)
(* CLI writes.  A block is named by its index in its message only, a tool's  *)
(* result by the tool use it answers, in a later message; the maps that say  *)
(* whose a line is are cleared with each message and with each turn, and a   *)
(* turn may be installed by a caller between any two lines.                 *)
(*                                                                         *)
(* Lines carry the block they are of (block): only the results of tools      *)
(* tell it to the code, the other lines' is read by properties.  Text is the *)
(* number of its parts, and text and thinking are the same kind of block.    *)
(***************************************************************************)
EXTENDS Naturals, Sequences, FiniteSets

CONSTANTS
    MaxPrompts,     \* bound: prompts sent, steering ones among them
    MaxMessages,    \* bound: messages of a prompt
    MaxBlocks,      \* bound: blocks written in all
    MaxIndex,       \* bound: the last index in a message
    MaxText,        \* bound: deltas of a block
    MaxUnread       \* bound: lines in the pipe

VARIABLES
    turn_started, turn_has_content,
    block_items,            \* index -> item, 0: none
    block_item_payloads,    \* index -> text so far
    block_tool_use_ids,     \* index -> tool use
    tool_items,             \* tool use -> its item, with input and output
    prompts,                \* sent so far
    stdout, cli,
    items,                  \* as the window has been told of them
    blocks,                 \* history: what the CLI has written
    cut                     \* history: blocks that a new turn cut off

block_maps == <<block_items, block_item_payloads, block_tool_use_ids>>
written    == <<prompts, stdout, cli, blocks>>
vars == <<turn_started, turn_has_content, block_maps, tool_items, written, items, cut>>

Indices == 0..MaxIndex
Blocks  == 1..MaxBlocks
Kinds   == {"text", "tool_use", "tool_result"}
NoBlock == 0
NoItem  == 0
NoInfo  == [item |-> NoItem, text |-> 0]

Line == [kind : {"message_start", "result"} \cup Kinds \cup {"delta", "stop"},
         index : Indices, block : Blocks \cup {NoBlock}, is_error : BOOLEAN]
Item == [block : Blocks, told : Nat, from : SUBSET Blocks, completed : Nat, final : Nat]
Block == [of : 0..MaxPrompts, kind : Kinds, tool : Blocks \cup {NoBlock}, message : 0..MaxMessages,
          text : Nat, ended : BOOLEAN]

TypeOK ==
    /\ turn_started \in BOOLEAN /\ turn_has_content \in BOOLEAN
    /\ block_items \in [Indices -> Nat] /\ block_item_payloads \in [Indices -> Nat]
    /\ block_tool_use_ids \in [Indices -> Blocks \cup {NoBlock}]
    /\ tool_items \in [Blocks -> [item : Nat, text : Nat]]
    /\ prompts \in 0..MaxPrompts /\ stdout \in Seq(Line)
    /\ cli \in [prompt : 0..MaxPrompts, busy : BOOLEAN, messages : 0..MaxMessages,
                open : Blocks \cup {NoBlock}, index : 0..MaxIndex + 1]
    /\ items \in Seq(Item) /\ blocks \in Seq(Block) /\ Len(blocks) <= MaxBlocks
    /\ cut \subseteq Blocks

----------------------------------------------------------------------------
(* The bridge's state.                                                     *)

Cleared ==
    /\ block_items' = [n \in Indices |-> NoItem]
    /\ block_item_payloads' = [n \in Indices |-> 0]
    /\ block_tool_use_ids' = [n \in Indices |-> NoBlock]

(* new_turn_with_id                                                        *)
NewTurn(started) ==
    /\ turn_started' = started /\ turn_has_content' = FALSE
    /\ Cleared /\ tool_items' = [t \in Blocks |-> NoInfo]

(* The interceptor installs a turn and sends its prompt, also while the CLI *)
(* is at work: the items it has begun and not ended are cut off.            *)
Install ==
    /\ prompts < MaxPrompts /\ prompts' = prompts + 1
    /\ NewTurn(TRUE)
    /\ cut' = cut \cup {items[i].block : i \in
                 {j \in DOMAIN items : items[j].completed = 0 \/ items[j].block \in
                     {t \in Blocks : tool_items[t].item # NoItem}}}
    /\ UNCHANGED <<stdout, cli, blocks, items>>

----------------------------------------------------------------------------
(* The reader: one line under the lock.                                    *)

Begun(b) == Append(items, [block |-> b, told |-> 0, from |-> {}, completed |-> 0, final |-> 0])
Told(i, b) ==
    [items EXCEPT ![i] = [items[i] EXCEPT !.told = @ + 1, !.from = @ \cup {b}]]
Completed(i, b, text) ==
    [items EXCEPT ![i] = [items[i] EXCEPT !.completed = @ + 1, !.from = @ \cup {b},
                                          !.final = text]]

MessageStart(l) ==
    /\ l.kind = "message_start"
    /\ turn_has_content' = TRUE /\ turn_started' = TRUE
    /\ Cleared
    /\ UNCHANGED <<tool_items, items>>

TextStart(l) ==
    /\ l.kind = "text"
    /\ items' = Begun(l.block)
    /\ block_items' = [block_items EXCEPT ![l.index] = Len(items) + 1]
    /\ block_item_payloads' = [block_item_payloads EXCEPT ![l.index] = 0]
    /\ UNCHANGED <<turn_started, turn_has_content, block_tool_use_ids, tool_items>>

ToolStart(l) ==
    /\ l.kind = "tool_use"
    /\ items' = Begun(l.block)
    /\ block_items' = [block_items EXCEPT ![l.index] = Len(items) + 1]
    /\ block_tool_use_ids' = [block_tool_use_ids EXCEPT ![l.index] = l.block]
    /\ tool_items' = [tool_items EXCEPT ![l.block] = [item |-> Len(items) + 1, text |-> 0]]
    /\ UNCHANGED <<turn_started, turn_has_content, block_item_payloads>>

(* More text for the item of the tool use t, if it is known.                *)
Grown(t) == [tool_items EXCEPT ![t].text = @ + 1]

ToolResult(l) ==
    LET t == blocks[l.block].tool IN
    /\ l.kind = "tool_result"
    /\ block_tool_use_ids' = [block_tool_use_ids EXCEPT ![l.index] = t]
    /\ IF tool_items[t].item # NoItem /\ blocks[l.block].text > 0
       THEN tool_items' = Grown(t) /\ items' = Told(tool_items[t].item, l.block)
       ELSE UNCHANGED <<tool_items, items>>
    /\ UNCHANGED <<turn_started, turn_has_content, block_items, block_item_payloads>>

Delta(l) ==
    LET i == block_items[l.index]
        t == block_tool_use_ids[l.index]
    IN
    /\ l.kind = "delta"
    /\ IF i = NoItem THEN UNCHANGED <<block_item_payloads, tool_items, items>>
       ELSE IF blocks[l.block].kind = "text"
       THEN /\ block_item_payloads' = [block_item_payloads EXCEPT ![l.index] = @ + 1]
            /\ items' = Told(i, l.block) /\ UNCHANGED tool_items
       ELSE /\ UNCHANGED block_item_payloads
            /\ IF t # NoBlock /\ tool_items[t].item # NoItem
               THEN tool_items' = Grown(t) /\ items' = Told(tool_items[t].item, l.block)
               ELSE items' = Told(i, l.block) /\ UNCHANGED tool_items
    /\ UNCHANGED <<turn_started, turn_has_content, block_items, block_tool_use_ids>>

Stop(l) ==
    LET i == block_items[l.index]
        t == block_tool_use_ids[l.index]
    IN
    /\ l.kind = "stop"
    /\ items' = IF t # NoBlock /\ tool_items[t].item # NoItem
                THEN Completed(tool_items[t].item, l.block, tool_items[t].text)
                ELSE IF i # NoItem THEN Completed(i, l.block, block_item_payloads[l.index])
                ELSE items
    /\ UNCHANGED <<turn_started, turn_has_content, block_maps, tool_items>>

(* A result is taken for one of an earlier turn if this one has no content. *)
IsStale(l) == turn_started /\ ~turn_has_content /\ ~l.is_error

Result(l) ==
    /\ l.kind = "result"
    /\ IF IsStale(l) THEN UNCHANGED <<turn_started, turn_has_content, block_maps, tool_items>>
       ELSE NewTurn(FALSE)
    /\ UNCHANGED items

ReadLine ==
    /\ stdout # <<>> /\ stdout' = Tail(stdout)
    /\ LET l == Head(stdout) IN
       \/ MessageStart(l) \/ TextStart(l) \/ ToolStart(l) \/ ToolResult(l)
       \/ Delta(l) \/ Stop(l) \/ Result(l)
    /\ UNCHANGED <<prompts, cli, blocks, cut>>

----------------------------------------------------------------------------
(* The CLI, external.  It answers one prompt after the other; it may begin a *)
(* message anew, or end, in the middle of a block.                          *)

Prints(kind, index, b, is_error) ==
    /\ Len(stdout) < MaxUnread
    /\ stdout' = Append(stdout, [kind |-> kind, index |-> index, block |-> b,
                                 is_error |-> is_error])
    /\ UNCHANGED <<turn_started, turn_has_content, block_maps, tool_items, prompts, items, cut>>

Take ==
    /\ ~cli.busy /\ cli.prompt < prompts
    /\ cli' = [prompt |-> cli.prompt + 1, busy |-> TRUE, messages |-> 0, open |-> NoBlock,
               index |-> 0]
    /\ UNCHANGED <<turn_started, turn_has_content, block_maps, tool_items, prompts, stdout,
                   blocks, items, cut>>

Message ==
    /\ cli.busy /\ cli.messages < MaxMessages
    /\ cli' = [cli EXCEPT !.messages = @ + 1, !.open = NoBlock, !.index = 0]
    /\ Prints("message_start", 0, NoBlock, FALSE) /\ UNCHANGED blocks

(* Uses of tools whose results may come in the message.                     *)
Unanswered ==
    {b \in DOMAIN blocks : /\ blocks[b].kind = "tool_use" /\ blocks[b].ended
                           /\ blocks[b].of = cli.prompt /\ blocks[b].message < cli.messages
                           /\ \A r \in DOMAIN blocks : blocks[r].tool # b}

Open ==
    /\ cli.busy /\ cli.messages > 0 /\ cli.open = NoBlock /\ cli.index <= MaxIndex
    /\ Len(blocks) < MaxBlocks
    /\ \E kind \in Kinds, tool \in Unanswered \cup {NoBlock}, text \in 0..1 :
          /\ kind = "tool_result" <=> tool # NoBlock
          /\ kind # "tool_result" => text = 0
          /\ blocks' = Append(blocks, [of |-> cli.prompt, kind |-> kind, tool |-> tool,
                                       message |-> cli.messages, text |-> text,
                                       ended |-> FALSE])
          /\ Prints(kind, cli.index, Len(blocks) + 1, FALSE)
    /\ cli' = [cli EXCEPT !.open = Len(blocks) + 1]

Write ==
    /\ cli.open # NoBlock /\ blocks[cli.open].kind # "tool_result"
    /\ blocks[cli.open].text < MaxText
    /\ blocks' = [blocks EXCEPT ![cli.open].text = @ + 1]
    /\ Prints("delta", cli.index, cli.open, FALSE) /\ UNCHANGED cli

Close ==
    /\ cli.open # NoBlock
    /\ blocks' = [blocks EXCEPT ![cli.open].ended = TRUE]
    /\ Prints("stop", cli.index, cli.open, FALSE)
    /\ cli' = [cli EXCEPT !.open = NoBlock, !.index = @ + 1]

End ==
    /\ cli.busy
    /\ \E is_error \in BOOLEAN : Prints("result", 0, NoBlock, is_error)
    /\ cli' = [cli EXCEPT !.busy = FALSE, !.open = NoBlock] /\ UNCHANGED blocks

----------------------------------------------------------------------------
Init ==
    /\ turn_started = FALSE /\ turn_has_content = FALSE
    /\ block_items = [n \in Indices |-> NoItem] /\ block_item_payloads = [n \in Indices |-> 0]
    /\ block_tool_use_ids = [n \in Indices |-> NoBlock]
    /\ tool_items = [t \in Blocks |-> NoInfo]
    /\ prompts = 0 /\ stdout = <<>>
    /\ cli = [prompt |-> 0, busy |-> FALSE, messages |-> 0, open |-> NoBlock, index |-> 0]
    /\ items = <<>> /\ blocks = <<>> /\ cut = {}

Next ==
    \/ Install \/ ReadLine
    \/ Take \/ Message \/ Open \/ Write \/ Close \/ End

Spec == Init /\ [][Next]_vars

----------------------------------------------------------------------------
(* The item a block belongs to is that of the tool use, for a result.       *)
Home(b) == IF blocks[b].kind = "tool_result" THEN blocks[b].tool ELSE b

(* What the window must have been given of the block b in the end.          *)
Whole(b) ==
    blocks[b].text + Cardinality({r \in DOMAIN blocks : blocks[r].tool = b /\ blocks[r].ended
                                                         /\ blocks[r].text > 0})

(* Nothing of one block is told of the item of another, however turns and   *)
(* messages follow: a delta, a stop or a tool's result that comes after a    *)
(* turn was installed is dropped sooner than given to another item.         *)
PartsStayHome ==
    \A i \in DOMAIN items : \A b \in items[i].from : Home(b) = items[i].block

(* Once all lines are read, each block that was written to its end is one   *)
(* item, completed, with all its text and, for a tool, its result; but for   *)
(* those a new turn cut off, which stay in progress or without the result.   *)
BlocksAreItems ==
    stdout = <<>> =>
        \A b \in DOMAIN blocks \ cut : blocks[b].ended /\ blocks[b].kind # "tool_result" =>
            \E i \in DOMAIN items :
                /\ items[i].block = b /\ \A j \in DOMAIN items : items[j].block = b => j = i
                /\ items[i].completed > 0 /\ items[i].final = Whole(b)
=============================================================================
