----------------------------- MODULE PageRemoval -----------------------------
(***************************************************************************)
(* The tools that take pages away: delete_source (tool_delete), the rename *)
(* of an entity (tool_rename) and the collection of orphans (tool_gc).     *)
(* Each reads the pages one after the other, decides, keeps copies and     *)
(* commits a batch of mutations; other writers commit in between, and a    *)
(* tool may stop anywhere.  Markdown files are taken to follow the         *)
(* canonical tables at once (MutationOutbox has their delays).             *)
(***************************************************************************)
EXTENDS Naturals, FiniteSets

CONSTANTS
    OldPage, NewPage,  \* names of a rename
    SourcePage,        \* the Source page of the raw file that is deleted
    OtherPages,        \* further pages
    MaxWrites,         \* bound: what other writers commit
    NoText

\* The pages are different pages, and NoText is none of their contents.
ASSUME RemovalAssumption ==
    /\ OldPage # NewPage /\ SourcePage \notin {OldPage, NewPage}
    /\ OtherPages \cap {OldPage, NewPage, SourcePage} = {}
    /\ NoText \notin [no : Nat, links : SUBSET {OldPage, NewPage}, refs : {"only", "among", "no"}]

VARIABLES
    text,      \* page -> content
    rawThere,  \* the raw file exists
    row,       \* it has a row in processed_files
    copies,    \* the recovery point of this run
    tool,      \* what the tool does and what it has read
    late,      \* history: pages that others wrote since the tool began
    writes

removalVars == <<text, rawThere, row, copies, tool, late, writes>>

Names == {OldPage, NewPage, SourcePage} \cup OtherPages
Text(n, links, refs) == [no |-> n, links |-> links, refs |-> refs]

\* A page cites the raw file alone, among others, or not at all.
Refs == {"only", "among", "no"}
NoTool == [kind |-> "none", at |-> "rest", read |-> {}, seen |-> [n \in Names |-> NoText],
           doomed |-> {}]

RemovalInit ==
    /\ \E other \in [OtherPages -> {NoText} \cup [no : {0}, links : {{}, {OldPage}}, refs : Refs]] :
         text = [n \in Names |-> CASE n = OldPage -> Text(0, {}, "no") [] n = NewPage -> NoText
                                    [] n = SourcePage -> Text(0, {}, "only") [] OTHER -> other[n]]
    /\ rawThere = TRUE /\ row = TRUE
    /\ copies = [n \in Names |-> NoText]
    /\ tool = NoTool /\ late = {} /\ writes = 0

Present(pages) == {n \in Names : pages[n] # NoText}
-----------------------------------------------------------------------------
\* A rename reads the old page first.
StartTool(kind) ==
    /\ tool.at = "rest"
    /\ kind = "rename" => text[OldPage] # NoText /\ text[NewPage] = NoText
    /\ tool' = [NoTool EXCEPT !.kind = kind, !.at = "read",
                              !.read = IF kind = "rename" THEN {OldPage} ELSE {},
                              !.seen[OldPage] = IF kind = "rename" THEN text[OldPage] ELSE @]
    /\ late' = {} /\ copies' = [n \in Names |-> NoText]
    /\ UNCHANGED <<text, rawThere, row, writes>>

\* Page by page; the graph of a collection is loaded at once. A deletion passes
\* over pages that it cannot read or parse.
ReadPage ==
    /\ tool.at = "read"
    /\ tool.read # Names
    /\ LET some == IF tool.kind = "gc" THEN Names ELSE {CHOOSE n \in Names : n \notin tool.read} IN
       \E lost \in IF tool.kind = "delete" THEN SUBSET some ELSE {{}} :
          tool' = [tool EXCEPT !.read = @ \cup some,
                               !.seen = [n \in Names |-> IF n \in some \ lost THEN text[n] ELSE @[n]]]
    /\ UNCHANGED <<text, rawThere, row, copies, late, writes>>

\* Neighbours: linked in either direction, or made from the same raw file.
Degree(seen, n) ==
    Cardinality({m \in Present(seen) \ {n} : \/ m \in seen[n].links \/ n \in seen[m].links
                                             \/ "no" \notin {seen[n].refs, seen[m].refs}})

\* What a tool will delete: pages of the raw file alone and its Source page;
\* the old name; pages of degree one or less.
Doomed ==
    CASE tool.kind = "delete" ->
           {n \in Present(tool.seen) : n = SourcePage \/ tool.seen[n].refs = "only"}
      [] tool.kind = "rename" -> {OldPage}
      [] tool.kind = "gc" -> {n \in Present(tool.seen) \cap OtherPages : Degree(tool.seen, n) <= 1}

Decide ==
    /\ tool.at = "read" /\ tool.read = Names
    /\ tool' = [tool EXCEPT !.doomed = Doomed, !.at = "copy"]
    /\ UNCHANGED <<text, rawThere, row, copies, late, writes>>

\* As if a copy that fails were passed over.
Uncopied_None == {}

\* A copy is of the file as it is by now; a collection goes page by page. Only a
\* rename keeps none.
Uncopied == IF tool.kind = "rename" THEN {} ELSE {n \in tool.doomed : copies[n] = NoText}

Copy(n) ==
    /\ tool.at = "copy" /\ n \in Uncopied /\ text[n] # NoText
    /\ tool.kind = "gc" => Uncopied = tool.doomed
    /\ copies' = [copies EXCEPT ![n] = text[n]]
    /\ UNCHANGED <<text, rawThere, row, tool, late, writes>>

Relinked(p) == IF OldPage \in p.links THEN [p EXCEPT !.links = (@ \ {OldPage}) \cup {NewPage}] ELSE p

\* The batch writes what was composed from what was read.
Written ==
    CASE tool.kind = "delete" ->
           [n \in {m \in Present(tool.seen) \ tool.doomed : tool.seen[m].refs = "among"} |->
               [tool.seen[n] EXCEPT !.refs = "no"]]
      [] tool.kind = "rename" ->
           [n \in {NewPage} \cup
                  {m \in Present(tool.seen) \ {OldPage, NewPage} : OldPage \in tool.seen[m].links} |->
               Relinked(tool.seen[IF n = NewPage THEN OldPage ELSE n])]
      [] OTHER -> <<>>

\* As if the raw file went first.
CommitFirst_Any == tool.at \in {"copy", "raw"}

\* The raw file is deleted after the batch that cleans up its pages.
CommitFirst == tool.at = "raw"

\* One transaction for a deletion of a source and for a rename.
CommitBatch ==
    /\ tool.at = "copy" /\ tool.kind # "gc" /\ Uncopied = {}
    /\ text' = [n \in Names |-> IF n \in tool.doomed THEN NoText
                                 ELSE IF n \in DOMAIN Written THEN Written[n] ELSE text[n]]
    /\ tool' = [tool EXCEPT !.at = IF @ = "copy" /\ tool.kind = "delete" THEN "raw" ELSE "done"]
    /\ UNCHANGED <<rawThere, row, copies, late, writes>>

\* A collection deletes page by page; one that fails is skipped.
Collect(n) ==
    /\ tool.at = "copy" /\ tool.kind = "gc" /\ n \in tool.doomed \ Uncopied
    /\ \/ text' = [text EXCEPT ![n] = NoText]
       \/ UNCHANGED text
    /\ tool' = [tool EXCEPT !.doomed = @ \ {n}]
    /\ UNCHANGED <<rawThere, row, copies, late, writes>>

RemoveRaw ==
    /\ tool.kind = "delete" /\ CommitFirst
    /\ rawThere /\ rawThere' = FALSE
    /\ tool' = [tool EXCEPT !.at = "forget"]
    /\ UNCHANGED <<text, row, copies, late, writes>>

\* _forget_processed_file
Forget ==
    /\ tool.at = "forget"
    /\ row' = FALSE
    /\ tool' = [tool EXCEPT !.at = "done"]
    /\ UNCHANGED <<text, rawThere, copies, late, writes>>

\* Nothing more to do, a failure, or the process stops.
StopTool ==
    /\ tool.at # "rest"
    /\ tool' = NoTool
    /\ UNCHANGED <<text, rawThere, row, copies, late, writes>>

\* Another writer; the Source page comes with a row, while the file is there.
WriteAnew(n) ==
    /\ writes < MaxWrites /\ writes' = writes + 1
    /\ \/ \E links \in {{}, {OldPage}}, refs \in Refs :
            /\ n = SourcePage => rawThere /\ refs = "only"
            /\ text' = [text EXCEPT ![n] = Text(writes', links, refs)]
            /\ row' = (row \/ n = SourcePage)
       \/ text[n] # NoText /\ text' = [text EXCEPT ![n] = NoText] /\ UNCHANGED row
    /\ late' = IF tool.at = "rest" THEN late ELSE late \cup {n}
    /\ UNCHANGED <<rawThere, copies, tool>>

\* The operator puts the file back.
AddRaw ==
    /\ ~rawThere /\ tool.at = "rest" /\ writes < MaxWrites
    /\ rawThere' = TRUE /\ writes' = writes + 1
    /\ UNCHANGED <<text, row, copies, tool, late>>

RemovalNext ==
    \/ \E kind \in {"delete", "rename", "gc"} : StartTool(kind)
    \/ ReadPage \/ Decide \/ CommitBatch \/ RemoveRaw \/ Forget \/ StopTool \/ AddRaw
    \/ \E n \in Names : Copy(n) \/ Collect(n) \/ WriteAnew(n)

RemovalSpec == RemovalInit /\ [][RemovalNext]_removalVars
-----------------------------------------------------------------------------
\* Of the pages that nobody else wrote: once the raw file is deleted none cites
\* it that could be read, and once a rename is done none links to the old name.
ReferencesFollow ==
    \A n \in Present(text) \ late :
        /\ tool.kind = "delete" /\ tool.at \in {"forget", "done"} /\ tool.seen[n] # NoText
               => text[n].refs = "no"
        /\ tool.kind = "rename" /\ tool.at = "done" => OldPage \notin text[n].links

\* Every page that a tool removes, a rename apart, has a copy; and of the text it had, unless
\* somebody wrote it since.
RemovalStep ==
    \A n \in Names : text[n] # NoText /\ text'[n] = NoText /\ writes' = writes /\ tool.kind # "rename"
        => copies[n] # NoText /\ (n \notin late => copies[n] = text[n])
=============================================================================
