------------------------------- MODULE FileTree -------------------------------
(***************************************************************************)
(* The files of the workspace that is shown, as a tree (FileTreePanel), and   *)
(* the preview of one of them, from which lines are added to the chat          *)
(* (FilePreviewPopover).  Effects run with the change that causes them.  A     *)
(* path is the sequence of its segments; where things are drawn is left out.  *)
(***************************************************************************)
EXTENDS Naturals, Sequences, FiniteSets

CONSTANTS
    Workspaces, None,
    Listings,       \* of a workspace: the sets of files it may have
    Modified,       \* the files that git may report
    Images,         \* the files that are images
    Lines,          \* of a file
    MaxSteps        \* bound: what the user and the workspace do to the tree, openings of a preview

VARIABLES
    active,         \* workspaceId
    files,          \* files
    filter,         \* filterMode, and the files that the query leaves, or None without one
    modified,       \* modifiedFiles
    expanded,       \* expandedFolders
    manual,         \* hasManualToggle
    preview,        \* previewPath, whose content it has, previewLoading, previewError
    selection,      \* previewSelection, isDragSelecting, dragAnchorLineRef, dragMovedRef
    request,        \* the request whose answer is awaited, or None
    noted           \* history

vars == <<active, files, filter, modified, expanded, manual, preview, selection, request, noted>>

Paths == UNION {UNION Listings[w] : w \in Workspaces}
Prefixes(p) == {SubSeq(p, 1, n) : n \in 1..(Len(p) - 1)}
Folders(fs) == UNION {Prefixes(p) : p \in fs}

(* buildTree: its rows are the nodes whose folders are all expanded.           *)
Visible ==
    {p \in files : (filter.mode = "modified" => p \in modified) /\ (filter.query # None => p \in filter.query)}
Rows == {p \in Visible \cup Folders(Visible) : Prefixes(p) \subseteq expanded}

TypeOK ==
    /\ active \in Workspaces /\ files \subseteq Paths /\ modified \subseteq Modified
    /\ filter.mode \in {"all", "modified"} /\ (filter.query # None => filter.query \subseteq Paths)
    /\ expanded \subseteq Folders(Paths) /\ manual \in BOOLEAN
    /\ preview.path \in Paths \cup {None} /\ preview.of \in (Workspaces \X Paths) \cup {None}
    /\ preview.loading \in BOOLEAN /\ preview.error \in BOOLEAN
    /\ selection.lines # None => selection.lines \in [start : Lines, end : Lines]
    /\ selection.dragging \in BOOLEAN /\ selection.moved \in BOOLEAN /\ selection.anchor \in Lines \cup {None}
    /\ request \in (Workspaces \X Paths) \cup {None}
    /\ noted.steps \in 0..MaxSteps /\ noted.closed \subseteq Folders(Paths) /\ noted.reopened \in BOOLEAN

----------------------------------------------------------------------------
(* The tree.                                                                *)
Step == noted.steps < MaxSteps
Stepped == [noted EXCEPT !.steps = @ + 1]
Filtered(f) == f.query # None \/ f.mode = "modified"
Kept(fs) == expanded \cap Folders(fs)

(* The effect that follows the folders that there are: a filter opens them     *)
(* all, and so does, at the top, a tree in which none is open.                *)
Follows(filters) ==
    LET vis == Visible'
        top == {f \in Folders(vis) : Len(f) = 1}
        none == Kept(vis) = {} /\ ~manual
    IN  /\ expanded' = IF Filtered(filters) THEN Folders(vis) ELSE IF none THEN top ELSE Kept(vis)
        /\ noted' = [Stepped EXCEPT
              !.closed = IF Filtered(filters) THEN {} ELSE @ \cap Folders(vis),
              !.reopened = @ \/ (~Filtered(filters) /\ Kept(vis) = {} /\ ~manual /\ noted.closed \cap top # {})]

Tree == <<active, files, filter, modified>>
View == <<preview, selection, request>>
FilesChange(fs) ==
    /\ Step /\ fs # files /\ fs \in Listings[active] /\ files' = fs
    /\ UNCHANGED <<active, filter, modified, manual, View>> /\ Follows(filter)
(* The files git reports are another array whenever the window is drawn.        *)
Rendered(ms) ==
    /\ Step /\ modified' = ms /\ UNCHANGED <<active, files, filter, manual, View>>
    /\ IF filter.mode = "modified" THEN Follows(filter) ELSE ms # modified /\ expanded' = expanded /\ noted' = Stepped
SetFilter(f) ==
    /\ Step /\ f # filter /\ filter' = f
    /\ UNCHANGED <<active, files, modified, manual, View>> /\ Follows(f)

AllExpanded == Folders(Visible) \subseteq expanded
ToggleAllFolders ==
    /\ Step /\ Folders(Visible) # {} /\ manual' = TRUE
    /\ expanded' = IF AllExpanded THEN expanded \ Folders(Visible) ELSE expanded \cup Folders(Visible)
    /\ noted' = [Stepped EXCEPT !.closed = IF AllExpanded THEN Folders(Visible) ELSE {}]
    /\ UNCHANGED <<Tree, View>>
ToggleFolder(f) ==
    /\ Step
    /\ expanded' = IF f \in expanded THEN expanded \ {f} ELSE expanded \cup {f}
    /\ noted' = [Stepped EXCEPT !.closed = IF f \in expanded THEN @ \cup {f} ELSE @ \ {f}]
    /\ UNCHANGED <<Tree, manual, View>>

----------------------------------------------------------------------------
(* The preview.                                                             *)
NoLines == [lines |-> None, dragging |-> FALSE, anchor |-> None, moved |-> FALSE]
NoPreview == [path |-> None, of |-> None, loading |-> FALSE, error |-> FALSE]
Closed == preview' = NoPreview /\ selection' = NoLines /\ request' = None

OpenPreview(p) ==
    /\ Step /\ selection' = NoLines /\ noted' = Stepped
    /\ IF p = preview.path THEN UNCHANGED <<preview, request>>
       ELSE IF p \in Images
       THEN preview' = [NoPreview EXCEPT !.path = p] /\ request' = None
       ELSE /\ preview' = [preview EXCEPT !.path = p, !.loading = TRUE, !.error = FALSE]
            /\ request' = <<active, p>>
    /\ UNCHANGED <<Tree, expanded, manual>>
OnRow(p) == IF p \in Folders(Visible) THEN ToggleFolder(p) ELSE OpenPreview(p)

(* The answer to a request that another one followed is not taken.             *)
FileRead ==
    /\ request # None /\ request' = None
    /\ \/ preview' = [preview EXCEPT !.of = request, !.loading = FALSE]
       \/ preview' = [preview EXCEPT !.error = TRUE, !.loading = FALSE]
    /\ UNCHANGED <<Tree, expanded, manual, selection, noted>>
ClosePreview ==
    /\ preview.path # None /\ Closed /\ UNCHANGED <<Tree, expanded, manual, noted>>

(* The lines are there when the file is.                                      *)
LinesShown == preview.path # None /\ ~preview.loading /\ ~preview.error /\ preview.path \notin Images
Least(i, j) == IF i < j THEN i ELSE j
Greatest(i, j) == IF i < j THEN j ELSE i
Range(i, j) == [start |-> Least(i, j), end |-> Greatest(i, j)]
Anchor(i, shift) == IF shift /\ selection.lines # None THEN selection.lines.start ELSE i

HandleLineMouseDown(i, shift) ==
    selection' = [lines |-> Range(Anchor(i, shift), i), dragging |-> TRUE, anchor |-> Anchor(i, shift), moved |-> FALSE]
HandleLineMouseEnter(i) ==
    /\ selection.dragging /\ selection.anchor # None
    /\ selection' = [selection EXCEPT !.lines = Range(selection.anchor, i), !.moved = @ \/ selection.anchor # i]
HandleMouseUp ==
    /\ selection.dragging /\ selection' = [selection EXCEPT !.dragging = FALSE, !.anchor = None]
HandleSelectLine(i, shift) ==
    /\ ~selection.dragging
    /\ selection' = IF selection.moved THEN [selection EXCEPT !.moved = FALSE]
                    ELSE [selection EXCEPT !.lines = Range(Anchor(i, shift), i)]
ClearSelection == selection.lines # None /\ selection' = [selection EXCEPT !.lines = None]
OnLines ==
    /\ LinesShown
    /\ \/ \E i \in Lines : HandleLineMouseEnter(i) \/ \E shift \in BOOLEAN : HandleLineMouseDown(i, shift) \/ HandleSelectLine(i, shift)
       \/ HandleMouseUp \/ ClearSelection
    /\ UNCHANGED <<Tree, expanded, manual, preview, request, noted>>

HandleAddSelection ==
    /\ LinesShown /\ selection.lines # None /\ Closed
    /\ noted' = [noted EXCEPT !.added = <<active, preview.path>>, !.from = preview.of]
    /\ UNCHANGED <<Tree, expanded, manual>>

(* Another workspace has no files at first, and closes the preview.            *)
SwitchTo(w) ==
    /\ Step /\ w # active /\ active' = w /\ files' = {} /\ Closed
    /\ UNCHANGED <<filter, modified, manual>> /\ Follows(filter)

Init ==
    /\ active \in Workspaces /\ files = {} /\ filter = [mode |-> "all", query |-> None] /\ modified = {}
    /\ expanded = {} /\ manual = FALSE /\ preview = NoPreview /\ selection = NoLines /\ request = None
    /\ noted = [steps |-> 0, closed |-> {}, reopened |-> FALSE, added |-> None, from |-> None]

Next ==
    \/ \E fs \in Listings[active] : FilesChange(fs)
    \/ \E ms \in SUBSET Modified : Rendered(ms)
    \/ \E f \in [mode : {"all", "modified"}, query : {None, Modified}] : SetFilter(f)
    \/ ToggleAllFolders \/ \E p \in Rows : OnRow(p)
    \/ FileRead \/ ClosePreview \/ OnLines \/ HandleAddSelection
    \/ \E w \in Workspaces : SwitchTo(w)

Spec == Init /\ [][Next]_vars

----------------------------------------------------------------------------
(* Lines are selected in the file that the preview names, and what is added to  *)
(* the chat comes from it, whatever was opened while it was read.             *)
AddsWhatIsNamed ==
    /\ selection.lines # None => preview.of = <<active, preview.path>>
    /\ noted.added = noted.from

(* The preview waits just while a request for what it names is under way.       *)
PreviewIsRead ==
    /\ preview.loading <=> request # None
    /\ request # None => request = <<active, preview.path>>

(* A folder that the user closed stays closed while there is no filter, unless   *)
(* it was the last that was open.                                            *)
ClosedFoldersStay == noted.reopened \/ noted.closed \cap expanded = {}
=============================================================================
