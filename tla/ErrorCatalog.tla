----------------------------- MODULE ErrorCatalog -----------------------------
(***************************************************************************)
(* The catalogue of error tags while it is curated: an administrator who   *)
(* browses it page by page and changes the status of tags                  *)
(* (modules/admin/admin-error-tags.service), the importer of generated     *)
(* tags (scripts/import-error-catalog) and the seed (prisma/seed).         *)
(*                                                                         *)
(* A tag is its code, and the codes are numbers in their alphabetical      *)
(* order; no operation deletes a tag.                                      *)
(***************************************************************************)
EXTENDS Naturals, FiniteSets, FiniteSetsExt, Sequences

CONSTANTS
    Codes,       \* the tags that there may be
    Seeded,      \* the codes that the seed upserts
    Entries,     \* the file to import: a sequence of [code, status]
    BatchSize,
    PageSize,    \* tags of a page (take)
    MaxUpdates,  \* bound: status changes by administrators
    MaxImports   \* bound: runs of the importer

Statuses == {"DRAFT", "ACTIVE", "DEPRECATED"}

ASSUME CatalogAssumption ==
    /\ Codes \subseteq Nat \ {0} /\ IsFiniteSet(Codes)
    /\ PageSize \in Nat \ {0}
    /\ BatchSize \in Nat \ {0}
    /\ Entries \in Seq([code : Codes, status : Statuses])

VARIABLES
    tags,      \* code -> status, or "ABSENT"
    import,    \* the importer: a process that reads and writes entry by entry
    listing,   \* the pages an administrator has turned so far
    updates, imports

catalogVars == <<tags, import, listing, updates, imports>>

\* seen: what each entry of the batch has read.  before, touched: the catalogue when
\* the run began, and the codes that administrators have changed since.
NoImport == [at |-> "idle", activate |-> FALSE, batch |-> 0, seen |-> <<>>,
             before |-> <<>>, touched |-> {}]

\* pages: the sets of tags that were listed.  cursor: 0 before the first page.
\* steady: the tags that have matched the filter ever since the first page.
\* gaps: pages asked for with the code of a tag that had left the filter.
NoListing == [at |-> "idle", filter |-> "ALL", cursor |-> 0, pages |-> <<>>,
              steady |-> {}, gaps |-> 0]

CatalogInit ==
    /\ tags \in [Codes -> Statuses \cup {"ABSENT"}]
    /\ import = NoImport /\ listing = NoListing
    /\ updates = 0 /\ imports = 0

Matching(catalogue, filter) ==
    {c \in Codes : catalogue[c] # "ABSENT" /\ filter \in {"ALL", catalogue[c]}}

\* After a step that changes the tags.
Observed == [listing EXCEPT !.steady = @ \cap Matching(tags', listing.filter)]

------------------------------------------------------------------------------
(* Curation. *)

UpdateErrorTagStatus(code, status) ==
    /\ updates < MaxUpdates
    /\ tags[code] \notin {"ABSENT", status}
    /\ tags' = [tags EXCEPT ![code] = status]
    /\ import' = [import EXCEPT !.touched = @ \cup {code}]
    /\ listing' = Observed
    /\ updates' = updates + 1
    /\ UNCHANGED imports

\* The seed upserts with an empty update: what is there stays as it is.
Seed ==
    /\ \E c \in Seeded : tags[c] = "ABSENT"
    /\ tags' = [c \in Codes |-> IF c \in Seeded /\ tags[c] = "ABSENT" THEN "ACTIVE" ELSE tags[c]]
    /\ UNCHANGED <<import, listing, updates, imports>>

------------------------------------------------------------------------------
(* Browsing. *)

\* The first n of a set of codes.
First(n, codes) == {c \in codes : Cardinality({d \in codes : d < c}) < n}

\* What matches from the cursor on, the cursor's row too if it matches still.
From(filter, cursor) == {c \in Matching(tags, filter) : c >= cursor}

\* The rows of a query: if there is a cursor the first one is skipped, and there is
\* one more than the page holds.
Query(filter, cursor) ==
    LET from == From(filter, cursor)
    IN  First(PageSize + 1, IF cursor = 0 THEN from ELSE from \ First(1, from))

\* Broken variant: the cursor is the extra row.
NextCursorExtra(rows) == IF Cardinality(rows) > PageSize THEN Max(rows) ELSE 0

\* The last code of the page while there are more rows.
NextCursor(rows) == IF Cardinality(rows) > PageSize THEN Max(First(PageSize, rows)) ELSE 0

ListErrorTags(filter) ==
    LET rows == Query(filter, listing.cursor)
        next == NextCursor(rows)
        first == listing.at = "idle"
    IN  /\ listing.at # "done"
        /\ first \/ filter = listing.filter
        /\ listing' =
             [at |-> IF next = 0 THEN "done" ELSE "more",
              filter |-> filter,
              cursor |-> next,
              pages |-> Append(listing.pages, First(PageSize, rows)),
              steady |-> IF first THEN Matching(tags, filter) ELSE listing.steady,
              gaps |-> listing.gaps +
                         IF ~first /\ listing.cursor \notin Matching(tags, filter) THEN 1 ELSE 0]
        /\ UNCHANGED <<tags, import, updates, imports>>

------------------------------------------------------------------------------
(* The importer: batches whose entries run concurrently. *)

StartImport(activate) ==
    /\ imports < MaxImports
    /\ import.at # "running"
    /\ import' = [at |-> "running", activate |-> activate, batch |-> 0,
                  seen |-> [i \in 1..Len(Entries) |-> "todo"], before |-> tags, touched |-> {}]
    /\ imports' = imports + 1
    /\ UNCHANGED <<tags, listing, updates>>

Batch == {i \in 1..Len(Entries) : (i - 1) \div BatchSize = import.batch}

ReadEntry(i) ==
    /\ import.at = "running" /\ i \in Batch
    /\ import.seen[i] = "todo"
    /\ import' = [import EXCEPT !.seen[i] = tags[Entries[i].code]]
    /\ UNCHANGED <<tags, listing, updates, imports>>

\* Broken variant: --activate promotes whatever is not active.
PromotesInactive(seen) == import.activate /\ seen \in {"DRAFT", "DEPRECATED"}

Promotes(seen) == import.activate /\ seen = "DRAFT"

\* An entry that was absent is created, and the run dies of a duplicate key when
\* another has created it since; a draft is promoted if the run activates; anything
\* else is a duplicate and is left alone.
WriteEntry(i) ==
    LET code == Entries[i].code
        seen == import.seen[i]
        Becomes(status) == tags' = [tags EXCEPT ![code] = status]
        Ends(at) == import' = [import EXCEPT !.seen[i] = "written", !.at = at]
    IN  /\ import.at = "running" /\ i \in Batch
        /\ seen \notin {"todo", "written"}
        /\ \/ /\ seen = "ABSENT" /\ tags[code] = "ABSENT"
              /\ Becomes(IF import.activate THEN "ACTIVE" ELSE Entries[i].status)
              /\ Ends("running")
           \/ /\ seen = "ABSENT" /\ tags[code] # "ABSENT"
              /\ Ends("failed")
              /\ UNCHANGED tags
           \/ /\ Promotes(seen)
              /\ Becomes("ACTIVE")
              /\ Ends("running")
           \/ /\ seen # "ABSENT" /\ ~Promotes(seen)
              /\ Ends("running")
              /\ UNCHANGED tags
        /\ listing' = Observed
        /\ UNCHANGED <<updates, imports>>

EndBatch ==
    /\ import.at = "running"
    /\ \A i \in Batch : import.seen[i] = "written"
    /\ import' = IF (import.batch + 1) * BatchSize >= Len(Entries)
                   THEN [import EXCEPT !.at = "done"]
                   ELSE [import EXCEPT !.batch = @ + 1]
    /\ UNCHANGED <<tags, listing, updates, imports>>

CatalogNext ==
    \/ \E c \in Codes, s \in Statuses : UpdateErrorTagStatus(c, s)
    \/ Seed
    \/ \E f \in Statuses \cup {"ALL"} : ListErrorTags(f)
    \/ \E activate \in BOOLEAN : StartImport(activate)
    \/ \E i \in 1..Len(Entries) : ReadEntry(i) \/ WriteEntry(i)
    \/ EndBatch

------------------------------------------------------------------------------
(* Properties. *)

Listed == UNION {listing.pages[i] : i \in DOMAIN listing.pages}

\* Turning the pages to the end lists no tag twice and misses none that matched the
\* filter throughout, however the catalogue changes meanwhile, but for one tag each
\* time the last tag of a page had left the filter before the next page was asked for.
ListingIsComplete ==
    /\ \A i, j \in DOMAIN listing.pages :
         i < j => \A c \in listing.pages[i], d \in listing.pages[j] : c < d
    /\ listing.at = "done" => Cardinality(listing.steady \ Listed) <= listing.gaps

\* An import that ends well has added every entry and undone no decision: a tag that
\* was active or deprecated when it began is so still, a draft of the file is active
\* if the run activates and a draft if it does not (tags that an administrator
\* changed meanwhile apart).
ImportKeepsCuration ==
    import.at = "done" =>
      \A i \in 1..Len(Entries) :
        LET code == Entries[i].code
        IN  code \notin import.touched =>
              /\ tags[code] # "ABSENT"
              /\ import.before[code] \in {"ACTIVE", "DEPRECATED"} => tags[code] = import.before[code]
              /\ import.before[code] = "DRAFT" =>
                   tags[code] = IF import.activate THEN "ACTIVE" ELSE "DRAFT"
==============================================================================
