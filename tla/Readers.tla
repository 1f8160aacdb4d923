------------------------------- MODULE Readers -------------------------------
(***************************************************************************)
(* The requests that read the server's tables while documents change:      *)
(* formatting, semantic tokens (full and delta), find-references, rename.  *)
(* A handler is an async function on the pool the updates run on; one step *)
(* is one access to a shared table, and the answer leaves in a step of its *)
(* own, so that answers of overlapping requests may change order.          *)
(***************************************************************************)
EXTENDS DocumentSync, SemanticTokens

CONSTANTS
    Source,         \* Text -> its bytes
    Nodes,          \* Text -> the nodes of its syntax tree
    Formatted,      \* Text -> what the formatter makes of it, Absent on errors
    InFull,         \* the names spelled by the whole path they are indexed by
    Alike,          \* Name -> the names whose path ends in its spelling
    Rank,           \* Name -> the place of its path in sorted order
    NewName,        \* Name -> its path once a rename gives it its new name
    Menus           \* one per session: the kinds of its requests and the
                    \* documents they are about, and bounds on the requests
                    \* and the changes that happen in it

VARIABLES
    menu,           \* the kinds of requests of this session, and its bounds
    requests,       \* requests being handled
    asked,          \* their number so far
    tokens,         \* tokens_cache: Uri -> the last result id and its array
    sent,           \* every array the server answered under a result id
    shown           \* Uri -> the array the editor paints, and its result id

reading == <<menu, requests, asked, tokens, sent, shown>>
allVars == <<vars, reading>>

ASSUME ReadersAssumption ==
    /\ Source \in [Text -> Seq({"ink", "blank", "newline"})]
    /\ Menus \subseteq [kinds : SUBSET {"formatting", "full", "delta", "references", "rename"},
                        docs : SUBSET Uri, requests : Nat, changes : 0..MaxChanges]
    /\ InFull \subseteq Name
    /\ Alike \in [Name -> SUBSET Name] /\ \A n \in Name : n \in Alike[n]
    /\ NewName \in [Name -> Name] /\ \A n \in Name : NewName[n] # n
    /\ Rank \in [Name -> Nat] /\ \A n, x \in Name : Rank[n] = Rank[x] => n = x

ReadInit ==
    /\ Init
    /\ menu \in Menus
    /\ requests = {}
    /\ asked = 0
    /\ tokens = [u \in Uri |-> Absent]
    /\ sent = {}
    /\ shown = [u \in Uri |-> Absent]

-----------------------------------------------------------------------------
(* The editor asks.  A request remembers the version it was made at, 0     *)
(* when an update of the document is still on the way.                     *)
Settled(u) == editor[u] # Absent /\ ~\E t \in tasks : t.uri = u

Request(kind, u, n, stage) ==
    [kind |-> kind, uri |-> u, cursor |-> n, name |-> Absent, stage |-> stage,
     id |-> asked + 1,
     version |-> IF Settled(u) THEN editor[u].version ELSE 0,
     quiet |-> IF \A v \in Uri : editor[v] = Absent \/ Settled(v) THEN version ELSE 0,
     previous |-> IF shown[u] = Absent THEN 0 ELSE shown[u].id,
     handle |-> Absent, buffer |-> Absent, base |-> Absent, data |-> Absent,
     sites |-> Absent, texts |-> Absent]

Ask(kind, u, n, stage) ==
    /\ kind \in menu.kinds /\ u \in menu.docs
    /\ "early" \in environment \/ eager.stage = "done"
    /\ asked < menu.requests
    /\ editor[u] # Absent
    /\ asked' = asked + 1
    /\ requests' = requests \cup {Request(kind, u, n, stage)}
    /\ UNCHANGED <<vars, menu, tokens, sent, shown>>

AskFormatting(u) == Ask("formatting", u, Absent, "handle")
AskFull(u)       == Ask("full", u, Absent, "handle")

AskDelta(u) ==
    /\ shown[u] # Absent
    /\ Ask("delta", u, Absent, "previous")

(* The cursor is on a declaration or a reference of the text it shows.     *)
UnderCursor(u) == Outline[editor[u].text].declares \cup Outline[editor[u].text].refers

AskReferences(u, n) ==
    /\ editor[u] # Absent /\ n \in UnderCursor(u)
    /\ Ask("references", u, n, "handle")

AskRename(u, n) ==
    /\ editor[u] # Absent /\ n \in UnderCursor(u)
    /\ Ask("rename", u, n, "handle")

-----------------------------------------------------------------------------
Continue(r, s) ==
    /\ requests' = (requests \ {r}) \cup {s}
    /\ UNCHANGED <<vars, menu, asked, sent, shown>>

(* An answer of null, or a refusal.                                        *)
GiveUp(r) ==
    /\ requests' = requests \ {r}
    /\ UNCHANGED <<vars, menu, asked, tokens, sent, shown>>

(* Mutant: whatever was cached last.                                       *)
CachedLatest(u, id) == IF tokens[u] = Absent THEN Absent ELSE tokens[u].data

(* get_cached_tokens: the latest array, if it goes by this id.             *)
CachedTokens(u, id) ==
    IF tokens[u] # Absent /\ tokens[u].id = id THEN tokens[u].data ELSE Absent

(* Without its base the delta becomes a request for the full array.        *)
ReadPrevious(r) ==
    /\ r.stage = "previous"
    /\ LET base == CachedTokens(r.uri, r.previous)
       IN  Continue(r, [r EXCEPT !.stage = "handle", !.base = base,
                                 !.kind = IF base = Absent THEN "full" ELSE "delta"])
    /\ UNCHANGED tokens

(* get_handle, then get_buffer.                                            *)
ReadHandle(r) ==
    /\ r.stage = "handle"
    /\ \/ /\ handles[r.uri] = Absent
          /\ GiveUp(r)
       \/ /\ handles[r.uri] # Absent
          /\ Continue(r, [r EXCEPT !.stage = "buffer", !.handle = handles[r.uri].text])
          /\ UNCHANGED tokens

AfterBuffer(kind) ==
    CASE kind = "formatting"             -> "format"
      [] kind \in {"full", "delta"}      -> "encode"
      [] kind \in {"references", "rename"} -> "resolve"

ReadBuffer(r) ==
    /\ r.stage = "buffer"
    /\ \/ /\ buffers[r.uri] = Absent
          /\ GiveUp(r)
       \/ /\ buffers[r.uri] # Absent
          /\ Continue(r, [r EXCEPT !.stage = AfterBuffer(r.kind), !.buffer = buffers[r.uri]])
          /\ UNCHANGED tokens

(* full_document_range, of the buffer.                                     *)
FullRange(text) ==
    LET last == LineOf(Source[text], Len(Source[text]))
    IN  <<last, LineEnd(Source[text], last)>>

(* One edit: the buffer's range, the handle's text formatted.              *)
Format(r) ==
    /\ r.stage = "format"
    /\ \/ /\ Formatted[r.handle] = Absent
          /\ GiveUp(r)
       \/ /\ Formatted[r.handle] # Absent
          /\ Continue(r, [r EXCEPT !.stage = "answer",
                            !.data = [until |-> FullRange(r.buffer),
                                      text  |-> Formatted[r.handle]]])
          /\ UNCHANGED tokens

(* The handle's tree over the buffer's lines; cached under a new id.       *)
EncodeTokens(r) ==
    /\ r.stage = "encode"
    /\ LET data == Encode(Nodes[r.handle], Source[r.buffer])
       IN  /\ tokens' = [tokens EXCEPT ![r.uri] = [id |-> r.id, data |-> data]]
           /\ sent' = sent \cup {[id |-> r.id, data |-> data]}
           /\ requests' = (requests \ {r}) \cup
                             {[r EXCEPT !.stage = "answer", !.data = data]}
    /\ UNCHANGED <<vars, menu, asked, shown>>

(* resolved_path_at.  The byte is found in the buffer, the node in the     *)
(* handle's tree: of other texts than the cursor's it may be any node.     *)
NodesAtCursor(r) ==
    LET meant == Outline[r.handle].declares \cup Outline[r.handle].refers
    IN  IF r.handle = r.buffer /\ r.cursor \in meant THEN {r.cursor} ELSE meant

(* The keys its spelling finds: itself, written in full, or the first of   *)
(* the paths that end in it.                                               *)
Matches(n) == {x \in Alike[n] : symbols[x] # Absent}

Found(n) ==
    IF n \in InFull /\ symbols[n] # Absent THEN {n}
    ELSE {x \in Matches(n) : \A y \in Matches(n) : Rank[x] <= Rank[y]}

ResolvePath(r) ==
    /\ r.stage = "resolve"
    /\ \/ \E n \in NodesAtCursor(r) : \E x \in Found(n) :
             /\ Continue(r, [r EXCEPT !.stage = "sites", !.name = x])
             /\ UNCHANGED tokens
       \/ /\ \/ \E n \in NodesAtCursor(r) : Found(n) = {}
             \/ r.handle # r.buffer
          /\ GiveUp(r)

(* references_of: the declaration, and every site resolved to the name.    *)
SitesOf(n) ==
    {[uri |-> site.uri, text |-> site.text] : site \in {s \in usages : s.name = n}}
        \cup (IF symbols[n] = Absent THEN {}
              ELSE {[uri |-> symbols[n].uri, text |-> symbols[n].text]})

(* contains_path(new_fq)                                                   *)
Taken(r) == symbols[NewName[r.name]] # Absent

(* handle_rename stops at a name that is taken, or when nothing changes.   *)
FindSites(r) ==
    /\ r.stage = "sites"
    /\ \/ /\ SitesOf(r.name) = {} \/ (r.kind = "rename" /\ Taken(r))
          /\ GiveUp(r)
       \/ /\ SitesOf(r.name) # {}
          /\ r.kind = "rename" => ~Taken(r)
          /\ Continue(r, [r EXCEPT !.sites = SitesOf(r.name),
                            !.stage = IF r.kind = "rename" THEN "verify" ELSE "answer"])
          /\ UNCHANGED tokens

-----------------------------------------------------------------------------
(* What texts declare and refer to, before and after the edits.            *)
Swap(names, n) == {IF x = n THEN NewName[n] ELSE x : x \in names}

OutlinesOf(texts) == [u \in {v \in Uri : texts[v] # Absent} |-> Outline[texts[u]]]

(* apply_edits, at sites of the very text that is edited.                  *)
AfterEdits(before, n, sites) ==
    [u \in DOMAIN before |->
        IF \E site \in sites : site.uri = u
        THEN [before[u] EXCEPT !.declares = Swap(@, n), !.refers = Swap(@, n)]
        ELSE before[u]]

(* error_fingerprints of check_with_external over all of them.             *)
Unresolved(outlines, u) ==
    outlines[u].refers \ UNION {outlines[v].declares : v \in DOMAIN outlines}

NewErrors(texts, n, sites) ==
    LET before == OutlinesOf(texts)
        after  == AfterEdits(before, n, sites)
    IN  {u \in DOMAIN before : ~(Unresolved(after, u) \subseteq Unresolved(before, u))}

(* Sites found in another text than the one that is edited: the splice     *)
(* lands anywhere, and what the analysis says of it is open.               *)
Misplaced(texts, sites) ==
    \E site \in sites : texts[site.uri] \notin {Absent, site.text}

(* Mutant: only the files the rename touches are analyzed again.           *)
VerifyTouched(r, texts) ==
    NewErrors(texts, r.name, r.sites) \cap {site.uri : site \in r.sites} = {}

(* verify_no_new_diagnostics                                               *)
Verified(r, texts) == NewErrors(texts, r.name, r.sites) = {}

VerifyRename(r) ==
    /\ r.stage = "verify"
    /\ \/ /\ Misplaced(buffers, r.sites) \/ Verified(r, buffers)
          /\ Continue(r, [r EXCEPT !.stage = "answer", !.texts = buffers])
          /\ UNCHANGED tokens
       \/ /\ Misplaced(buffers, r.sites) \/ ~Verified(r, buffers)
          /\ GiveUp(r)

-----------------------------------------------------------------------------
(* The answer arrives.  A delta deletes as many integers as the base had   *)
(* tokens, and the editor splices the array it got under that id.          *)
Spliced(old, deleted, new) == new \o SubSeq(old, deleted + 1, Len(old))

Deliver(r) ==
    /\ r.stage = "answer"
    /\ requests' = requests \ {r}
    /\ shown' =
          CASE r.kind = "full" ->
                  [shown EXCEPT ![r.uri] = [id |-> r.id, data |-> r.data]]
            [] r.kind = "delta" /\ shown[r.uri].id = r.previous ->
                  [shown EXCEPT ![r.uri] =
                     [id   |-> r.id,
                      data |-> Spliced(@.data, TokenCount(r.base), r.data)]]
            [] OTHER -> shown
    /\ UNCHANGED <<vars, menu, asked, tokens, sent>>

-----------------------------------------------------------------------------
AskStep ==
    \/ \E u \in Uri : AskFormatting(u) \/ AskFull(u) \/ AskDelta(u)
    \/ \E u \in Uri, n \in Name : AskReferences(u, n) \/ AskRename(u, n)

HandleStep(r) ==
    \/ ReadPrevious(r)
    \/ ReadHandle(r)
    \/ ReadBuffer(r)
    \/ Format(r)
    \/ EncodeTokens(r)
    \/ ResolvePath(r)
    \/ FindSites(r)
    \/ VerifyRename(r)
    \/ Deliver(r)

ReadNext ==
    \/ Next /\ version' <= menu.changes /\ UNCHANGED reading
    \/ AskStep
    \/ \E r \in requests : HandleStep(r)

ReadSpec == ReadInit /\ [][ReadNext]_allVars

-----------------------------------------------------------------------------
Calm == Without({"early", "slow", "close", "skip", "unsaved"})

(* Documents of which the editor has shown the same text since r was made, *)
(* with no update on the way at the time.                                  *)
Unchanged(r) ==
    r.version # 0 /\ editor[r.uri] # Absent /\ editor[r.uri].version = r.version

Declares(text, n) == n \in Outline[text].declares
Refers(text, n)   == n \in Outline[text].refers

(* The name is the cursor's own, unless another ending alike is declared.  *)
MeansCursor(r) ==
    (\A u \in {v \in Uri : buffers[v] # Absent}, x \in Alike[r.cursor] :
        Declares(buffers[u], x) => x = r.cursor)
    => r.name = r.cursor

CurrentAnswer(r) ==
    LET text == editor[r.uri].text IN
    CASE r.kind = "formatting" ->
            /\ r.data.text = Formatted[text]
            /\ r.data.until = <<LineOf(Source[text], Len(Source[text])),
                                ColumnOf(Source[text], Len(Source[text]))>>
      [] r.kind \in {"full", "delta"} ->
            Painted(r.data) = ShouldPaint(Nodes[text], Source[text])
      [] r.kind = "references" ->
            r.quiet = version =>
                /\ MeansCursor(r)
                /\ {site.uri : site \in r.sites} \cap Workspace
                      = {u \in Workspace :
                            \/ Declares(buffers[u], r.name)
                            \/ /\ Refers(buffers[u], r.name)
                               /\ r.name \in Known(buffers[u], indexed[u].table)}
      [] OTHER -> TRUE

(* handle and buffer are read apart while other documents update: a        *)
(* request made and answered with the document at rest is still answered   *)
(* from the text it shows - the edit replaces all of it by its own         *)
(* formatting, the array paints its tokens over every line they span, and  *)
(* the references lack no document that declares the name or uses it, but  *)
(* those last analyzed against a closure that did not know it.             *)
AnswersAreCurrent ==
    Calm => \A r \in requests : r.stage = "answer" /\ Unchanged(r) => CurrentAnswer(r)

(* The encoding alone, of a whole text: the array paints its tokens.       *)
EncodingPaints ==
    \A text \in Text :
        Painted(Encode(Nodes[text], Source[text])) = ShouldPaint(Nodes[text], Source[text])

(* What there is to rename: the files of the workspace, and what is open.  *)
OnScreen(u) ==
    IF editor[u] # Absent THEN editor[u].text
    ELSE IF u \in Workspace THEN disk[u] ELSE Absent

(* Every document that declares the name or refers to it, and no other,    *)
(* is edited at positions of the text it has.                              *)
Covers(r, texts) ==
    /\ ~Misplaced(texts, r.sites)
    /\ {site.uri : site \in r.sites}
          = {u \in Uri : texts[u] # Absent /\ (Declares(texts[u], r.name)
                                               \/ Refers(texts[u], r.name))}

(* The sites of a rename come from an index that lacks uses (of a name its *)
(* closure did not know) and that an update may be halfway through         *)
(* replacing.  Made and answered at rest, it edits every document that has *)
(* the name, and its new name is no file's; answered among updates, so     *)
(* does one whose positions and texts are those on screen.                 *)
RenameIsWhole ==
    LET texts == [u \in Uri |-> OnScreen(u)]
        shows == {u \in Uri : texts[u] # Absent}
        unused(n) == \A u \in shows : ~Declares(texts[u], n) /\ ~Refers(texts[u], n)
    IN  Calm => \A r \in requests :
          r.kind = "rename" /\ r.stage = "answer" =>
            /\ r.quiet # 0 /\ r.quiet = version =>
                  /\ MeansCursor(r)
                  /\ Covers(r, texts)
                  /\ \A u \in Workspace : ~Declares(texts[u], NewName[r.name])
            /\ r.texts = texts /\ ~Misplaced(texts, r.sites) /\ unused(NewName[r.name]) =>
                  Covers(r, texts)

(* Doc: "two same-named symbols in different packages never bleed into     *)
(* each other" (references.rs:8).                                          *)
ReferencesDoNotBleed ==
    Calm => \A r \in requests :
        r.kind = "references" /\ r.stage = "answer" /\ Unchanged(r) /\ r.quiet = version
            => r.name = r.cursor

(* The base of a delta is the array the editor was sent under the id it    *)
(* names, although overlapping requests replace the cached one: otherwise  *)
(* the number it deletes is of another array.                              *)
DeltaFindsItsBase ==
    \A r \in requests :
        r.base # Absent => [id |-> r.previous, data |-> r.base] \in sent

(* Doc: "single splice that replaces the entire prior data array with the  *)
(* new one" (semantic_tokens.rs:714).                                      *)
DeltaReplacesAll ==
    \A u \in Uri :
        shown[u] # Absent => [id |-> shown[u].id, data |-> shown[u].data] \in sent
=============================================================================
