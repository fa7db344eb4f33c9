------------------------------- MODULE UseAPI -------------------------------
(***************************************************************************)
(* The hook through which every page reads (web/src/hooks/useAPI.ts): what  *)
(* its three useState cells hold, as a record, and what each event makes of *)
(* them; and what a page renders from them.  data is a set of at most one   *)
(* response, {} for null.  When the events happen is the pages' subject.    *)
(***************************************************************************)

\* A mounted page: the initial state, which the effect's fetchData keeps loading.
NewHook == [data |-> {}, loading |-> TRUE, error |-> FALSE]

\* fetchData until its await.
Fetching(h) == [h EXCEPT !.loading = TRUE]

Resolved(h, d) == [data |-> {d}, loading |-> FALSE, error |-> FALSE]

\* Fault variant: loading is reset at the end of the try block.
RejectedKeepsLoading(h) == [h EXCEPT !.error = TRUE]

\* catch and finally: what was loaded before stays.
Rejected(h) == [h EXCEPT !.error = TRUE, !.loading = FALSE]

Hook(Response) == [data : SUBSET Response, loading : BOOLEAN, error : BOOLEAN]
-----------------------------------------------------------------------------
(* What a page renders.                                                     *)

Text(s)  == [view |-> s, data |-> {}]
Page(d)  == [view |-> "page", data |-> d]

\* A page that says so when it has nothing.
PageOrFailure(h) ==
    IF h.loading THEN Text("loading") ELSE IF h.data = {} THEN Text("failed") ELSE Page(h.data)

\* A page with a table, which has no rows when nothing was loaded: the error is not
\* looked at.
Table(h) == IF h.loading THEN Text("loading") ELSE Page(h.data)

=============================================================================
