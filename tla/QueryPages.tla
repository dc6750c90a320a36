----------------------------- MODULE QueryPages -----------------------------
(* `sessions list`, `search` and `events list` of the query tool: pages of   *)
(* a newest-first listing fetched one by one under an item and a page budget *)
(* (abyss-query-cli run.rs, abyss-data-client transport.rs).  Rows are       *)
(* numbered by age, so that a row added to the store is below all others.    *)
EXTENDS Integers, Sequences

CONSTANTS MaxRows,       \* bound on rows in the store
          PageSizes,     \* --page-size, --limit
          ItemBudgets,   \* --max-items
          PageBudgets,   \* --max-pages
          MaxAdded       \* bound on rows added while a command runs

ASSUME QueryPagesAssumption ==
    /\ {MaxRows, MaxAdded} \subseteq Nat
    /\ PageSizes \cup ItemBudgets \cup PageBudgets \subseteq Nat \ {0}

VARIABLES
    ask,        \* the arguments: [kind, first, size, items, pages, all]
    rows,       \* rows in the store when the command started
    added,      \* rows added since
    reply,      \* the service's answer, or NoReply
    attempt,    \* attempts at the current request
    got,        \* the rows gathered
    pages,      \* pages gathered
    at,         \* query.page of a session listing, query.offset of events
    answer      \* what the command printed: [st, next, truncated]
pageVars == <<ask, rows, added, reply, attempt, got, pages, at, answer>>

NoReply == [rows |-> <<>>, more |-> FALSE, next |-> 0, page |-> 0, size |-> 0, st |-> "none"]
Fetching == [st |-> "running", next |-> 0, truncated |-> FALSE]

Asks == [kind : {"sessions", "events"}, first : 0..2, size : PageSizes,
         items : ItemBudgets, pages : PageBudgets, all : BOOLEAN]
PagesInit ==
    /\ ask \in Asks /\ (ask.kind = "sessions" => ask.first > 0)
    /\ rows \in 0..MaxRows /\ added = 0
    /\ reply = NoReply /\ attempt = 0 /\ got = <<>> /\ pages = 0
    /\ at = ask.first /\ answer = Fetching

Least(a, b) == IF a < b THEN a ELSE b
(* The window of the request: the page size of a session listing never       *)
(* changes, the limit of an event listing is what remains of the budget.     *)
page_size == IF ask.kind = "sessions" THEN Least(ask.size, ask.items)
             ELSE Least(ask.size, ask.items - Len(got))
Skip == IF ask.kind = "sessions" THEN (at - 1) * page_size ELSE at

(* The listing is newest first; row numbers fall with it.                    *)
Window(skip, size) ==
    [k \in 1..Least(size, IF rows + added > skip THEN rows + added - skip ELSE 0) |->
        skip + k - added]
HasMore == rows + added > Skip + page_size
Answered == [rows |-> Window(Skip, page_size), more |-> HasMore, next |-> Skip + page_size,
             page |-> at, size |-> page_size, st |-> "ok"]
(* A service that breaks the contract: a page too long, another window, a    *)
(* continuation that does not advance or that follows an empty page.         *)
Broken == {[Answered EXCEPT !.rows = Window(Skip, page_size + 1)],
           [Answered EXCEPT !.page = @ + 1],
           [Answered EXCEPT !.rows = <<>>, !.more = TRUE],
           [Answered EXCEPT !.more = ask.kind = "events" \/ @, !.next = at]}

(* HttpTransport::send: a GET that fails to connect, times out or is told    *)
(* 429, 502, 503 or 504 is repeated, any other failure is final.             *)
Send ==
    /\ answer.st = "running" /\ reply = NoReply
    /\ \/ \E r \in {Answered} \cup Broken : reply' = r /\ attempt' = 0 /\ UNCHANGED answer
       \/ attempt < 1 /\ attempt' = attempt + 1 /\ UNCHANGED <<reply, answer>>
       \/ answer' = [answer EXCEPT !.st = "failed"] /\ UNCHANGED <<reply, attempt>>
    /\ UNCHANGED <<ask, rows, added, got, pages, at>>

(* The checks before a page is used. *)
SessionsRefused ==
    \/ Len(reply.rows) > page_size
    \/ reply.page # at \/ reply.size # page_size
    \/ reply.more /\ reply.rows = <<>>
EventsRefused ==
    \/ Len(reply.rows) > page_size
    \/ reply.more /\ (reply.next <= at \/ reply.rows = <<>>)
Unacceptable == IF ask.kind = "sessions" THEN SessionsRefused ELSE EventsRefused
Refuse ==
    /\ reply # NoReply /\ answer.st = "running" /\ Unacceptable
    /\ answer' = [answer EXCEPT !.st = "failed"]
    /\ UNCHANGED <<ask, rows, added, reply, attempt, got, pages, at>>

(* Mutant: takes a limit of zero as a bound. *)
BoundedAtZero(n) == n >= ask.items
(* A session listing stops before a page that could exceed the budget. *)
SessionsBounded(n) == ask.items - n < page_size
EventsBounded(n) == n >= ask.items
bounded(n) ==
    \/ IF ask.kind = "sessions" THEN SessionsBounded(n) ELSE EventsBounded(n)
    \/ pages + 1 >= ask.pages
Continuation == IF ask.kind = "sessions" THEN at + 1 ELSE reply.next
fetch ==
    /\ reply # NoReply /\ answer.st = "running" /\ ~Unacceptable
    /\ LET all == got \o reply.rows
           stop == bounded(Len(all))
       IN  /\ got' = all /\ pages' = pages + 1 /\ reply' = NoReply
           /\ IF ~reply.more \/ ~ask.all \/ stop
              THEN answer' = [st |-> "printed", next |-> IF reply.more THEN Continuation ELSE 0,
                              truncated |-> reply.more /\ ask.all /\ stop] /\ UNCHANGED at
              ELSE at' = Continuation /\ UNCHANGED answer
    /\ UNCHANGED <<ask, rows, added, attempt>>

(* The store receives a row while the command runs. *)
RowArrives ==
    /\ answer.st = "running" /\ added < MaxAdded /\ added' = added + 1
    /\ UNCHANGED <<ask, rows, reply, attempt, got, pages, at, answer>>
PagesNext == Send \/ Refuse \/ fetch \/ RowArrives

(***************************************************************************)
(* Properties.                                                             *)
(***************************************************************************)
SkipOf(next) == IF ask.kind = "sessions" THEN (next - 1) * Least(ask.size, ask.items) ELSE next
First == SkipOf(ask.first)

(* What is printed stays within both budgets.  The rows follow one another   *)
(* from the window asked for: rows that arrive meanwhile may repeat one but  *)
(* never hide one.  If none arrived, the continuation names exactly the row  *)
(* after the last one printed, there is one just when rows remain, and the   *)
(* output says it was cut short just when `--all` did not reach the end.     *)
PagesExact ==
    /\ Len(got) <= ask.items /\ pages <= ask.pages
    /\ \A k \in 1..(Len(got) - 1) : got[k + 1] <= got[k] + 1
    /\ answer.st = "printed" /\ added = 0 =>
        /\ got = [k \in 1..Len(got) |-> First + k]
        /\ (answer.next # 0) = (First + Len(got) < rows)
        /\ answer.next # 0 => SkipOf(answer.next) = First + Len(got)
        /\ answer.truncated = (ask.all /\ answer.next # 0)
=============================================================================
