-------------------------------- MODULE Pages --------------------------------
(***************************************************************************)
(* The result of a query goes to the client in pages: View::contactsDetails*)
(* cuts them in the service, one call after the other, and                 *)
(* GaleraContactsService puts them together, with an offset and a page size*)
(* of its own.  The filter thread of the view is done.  Between two calls  *)
(* View::sort, a method on the bus, may put the result in another order.   *)
(* Calls that fail, and requests that are cancelled, are in ClientRequests.*)
(***************************************************************************)
EXTENDS Integers, Sequences

CONSTANTS Results,     \* what the filter thread may have found
          PageSizes    \* the values of m_pageSize; 0 is what toInt makes of a text

\* The contacts there are in results, which are sequences of them.
Contacts == UNION {{r[i] : i \in DOMAIN r} : r \in Results}

ASSUME ResultsAssumption == Results \subseteq Seq(Contacts)
ASSUME PageSizesAssumption == PageSizes \subseteq Int

VARIABLES result,      \* m_contacts of the filter thread
          pageSize,    \* m_pageSize of the client
          offset,      \* the offset of the request
          fetched,     \* the contacts the request has
          fetching,    \* a page is asked for
          resorted     \* history: the result was sorted after its first page went out

pagesVars == <<result, pageSize, offset, fetched, fetching, resorted>>

PagesInit ==
    /\ result \in Results
    /\ pageSize \in PageSizes
    /\ offset = 0 /\ fetched = <<>>
    /\ fetching = TRUE /\ resorted = FALSE

---------------------------------------------------------------------------
\* Mutant: a page that ends with the last contact is cut short by it.
ContactsDetailsShort(contacts, startIndex, size) ==
    LET first == IF startIndex < 0 THEN 0 ELSE startIndex
        count == IF size < 0 \/ first + size >= Len(contacts) - 1
                 THEN Len(contacts) - 1 - first ELSE size
    IN  SubSeq(contacts, first + 1, first + count)

\* View::contactsDetails
ContactsDetails(contacts, startIndex, size) ==
    LET first == IF startIndex < 0 THEN 0 ELSE startIndex
        count == IF size < 0 \/ first + size >= Len(contacts) THEN Len(contacts) - first ELSE size
    IN  SubSeq(contacts, first + 1, first + count)

\* fetchContactsPage to onVCardsParsed: a page that is full and not empty is followed by
\* another.
FetchPage ==
    /\ fetching
    /\ LET page == ContactsDetails(result, offset, pageSize)
       IN  /\ fetched' = fetched \o page
           /\ fetching' = (page # <<>> /\ Len(page) = pageSize)
           /\ offset' = IF fetching' THEN offset + pageSize ELSE offset
    /\ UNCHANGED <<result, pageSize, resorted>>

\* View::sort, with any clause.
Sort ==
    /\ fetching
    /\ result' \in {[i \in DOMAIN result |-> result[f[i]]] :
                       f \in {g \in [DOMAIN result -> DOMAIN result] :
                                 \A i, j \in DOMAIN result : g[i] = g[j] => i = j}}
    /\ resorted' = (resorted \/ (offset > 0 /\ result' # result))
    /\ UNCHANGED <<pageSize, offset, fetched, fetching>>

PagesNext == FetchPage \/ Sort

PagesSpec == PagesInit /\ [][PagesNext]_pagesVars

---------------------------------------------------------------------------
\* A client that fetched page after page has as many contacts as the result, also when
\* it ends with a full page or has none, and has the result itself unless somebody put it
\* in another order meanwhile.  The exception is a page size of 0: it has none.
PagesAreWhole ==
    ~fetching /\ pageSize # 0 =>
        /\ Len(fetched) = Len(result)
        /\ resorted \/ fetched = result
=============================================================================
