--------------------------------- MODULE Ledger --------------------------------
(***************************************************************************)
(* What a repository promises of the records it keeps, without operations, *)
(* locks, loading or the files themselves: a page of entries that is shown *)
(* while the ledger is open, a book that outlives it, and a pen that blots *)
(* a line before it writes it.  Page and book differ in one name at most,  *)
(* a pen dropped in between leaves a line torn, and with a torn line the   *)
(* ledger does not open again.                                             *)
(***************************************************************************)
CONSTANTS
    Names, Records,
    Content(_),   \* what of a record never changes between two launches
    Torn, Blank   \* a line that is not a record; no line

VARIABLES open, page, book, pen

ledgerVars == <<open, page, book, pen>>

NoPage == [n \in {} |-> Blank]

NoPen == [on |-> Blank, record |-> Blank]

Agree(n) == book[n] = IF n \in DOMAIN page THEN page[n] ELSE Blank

Entered(n, r) == [k \in DOMAIN page \cup {n} |-> IF k = n THEN r ELSE page[k]]

Struck(n) == [k \in DOMAIN page \ {n} |-> page[k]]

Init ==
    /\ open = FALSE
    /\ page = NoPage
    /\ book = [n \in Names |-> Blank]
    /\ pen = NoPen

\* The page shows exactly what the book has, if that can be read.
Open ==
    /\ ~open /\ pen = NoPen
    /\ \A n \in Names : book[n] # Torn
    /\ open' = TRUE
    /\ page' = [n \in {k \in Names : book[k] # Blank} |-> book[n]]
    /\ UNCHANGED <<book, pen>>

\* An entry is made, changed or struck out: the book is to follow.
Note(n) ==
    /\ open /\ pen = NoPen
    /\ \A k \in Names : Agree(k)
    /\ \/ \E r \in Records : page' = Entered(n, r)
       \/ page' = Struck(n)
    /\ UNCHANGED <<open, book, pen>>

\* A line is blotted: for what the page shows, or for a new entry.  While the
\* ledger is closed, for the record it had, corrected.
Blot(n, r) ==
    /\ pen = NoPen
    /\ IF open
       THEN /\ \A k \in Names \ {n} : Agree(k)
            /\ n \in DOMAIN page => r = page[n]
       ELSE /\ book[n] \notin {Torn, Blank}
            /\ Content(r) = Content(book[n])
    /\ book' = [book EXCEPT ![n] = Torn]
    /\ pen' = [on |-> n, record |-> r]
    /\ UNCHANGED <<open, page>>

Write(n, r) ==
    /\ pen = [on |-> n, record |-> r]
    /\ book' = [book EXCEPT ![n] = r]
    /\ page' = IF open THEN Entered(n, r) ELSE page
    /\ pen' = NoPen
    /\ UNCHANGED open

\* The line of an entry struck out, or of one whose file is gone.
Erase(n) ==
    /\ pen = NoPen
    /\ IF open THEN n \notin DOMAIN page ELSE book[n] # Torn
    /\ book' = [book EXCEPT ![n] = Blank]
    /\ UNCHANGED <<open, page, pen>>

\* At any time: the pen is dropped.
Close ==
    /\ open' = FALSE
    /\ page' = NoPage
    /\ pen' = NoPen
    /\ UNCHANGED book

Next ==
    \/ Open \/ Close
    \/ \E n \in Names :
          \/ Note(n) \/ Erase(n)
          \/ \E r \in Records : Blot(n, r) \/ Write(n, r)

Spec == Init /\ [][Next]_ledgerVars

=============================================================================
