-------------------------------- MODULE Site --------------------------------
(***************************************************************************)
(* The public address of a business and what stands behind it.             *)
(*                                                                         *)
(* A business has one current address (businesses.slug) and every address  *)
(* it ever had in business_slug_history; an old address answers with a     *)
(* permanent move to the current one.  The home page is rendered in        *)
(* several statements and the answer, a move and a 404 included, is kept:  *)
(* for a minute it is fresh, after that it is still what the next visitor  *)
(* gets, and his request renders the page anew.  Whether a home is open is *)
(* decided by loadPublicHome; what the console calls live, by              *)
(* publish-gate.ts.                                                        *)
(***************************************************************************)
EXTENDS Naturals, FiniteSets

CONSTANTS
  Businesses,
  Addresses,       \* the addresses anybody uses or asks for
  Temp,            \* Temp[b]: the address b- given to b when it signed up
  Visited,         \* bound: the addresses visitors ask for
  Reserved,        \* RESERVED_SLUGS
  Products, Resources,
  OwnerOf,         \* OwnerOf[x]: the business of a product or a resource
  Callers,         \* requests of consoles that run at the same time
  SlugChanges,     \* SLUG_CHANGES_PER_30D (3 in the code)
  MaxCalls,        \* bound on the changes asked for
  MaxEdits         \* bound on the other edits

ASSUME SiteAssumption ==
  /\ IsFiniteSet(Businesses)
  /\ Temp \in [Businesses -> Addresses]
  /\ \A b, d \in Businesses : Temp[b] = Temp[d] => b = d     \* made of the identifier of the business
  /\ SlugChanges \in Nat

VARIABLES
  slug,            \* businesses.slug
  history,         \* rows [slug, biz, recent] of business_slug_history
  home,            \* per business: status, information, site_pages row
  onSale, active,  \* the products with status ACTIVE, the active resources
  call,            \* requests that change an address
  cache,           \* per address: the answer that is kept, or Unasked
  old,             \* the addresses whose kept answer is older than a minute
  visit,           \* per address: the render under way
  used,            \* per business: the addresses it has had (for the properties)
  calls, edits

siteVars == <<slug, history, home, onSale, active, call, cache, old, visit, used, calls, edits>>
kept == <<cache, old>>
console == <<slug, history, home, onSale, active, call, used, calls, edits>>

Unset == "none"
Temps == {Temp[b] : b \in Businesses}
HomeStatuses == {"APPROVED", "SUSPENDED"}
SiteRows == {Unset, "published", "hidden"}

----------------------------------------------------------------------------
(* Who may see the home of a business.                                     *)

InfoComplete(b) == home[b].info /\ slug[b] \notin Temps

OnSale(b) == {p \in onSale : OwnerOf[p] = b}
ActiveOf(b) == {r \in active : OwnerOf[r] = b}
SitePublished(b) == home[b].site # "hidden"       \* no row counts as published

(* What the console shows as the state of the publication.                 *)
ReadyToPublish(b) == InfoComplete(b) /\ ActiveOf(b) # {} /\ OnSale(b) # {}
Live(b) == home[b].status = "APPROVED" /\ ReadyToPublish(b) /\ SitePublished(b)

(* The same conditions, read for a visitor: the row of the business with   *)
(* the count of its resources, then the products.                          *)
GateOpen(b) ==
  /\ home[b].status = "APPROVED" /\ SitePublished(b)
  /\ InfoComplete(b)
  /\ ActiveOf(b) # {}

----------------------------------------------------------------------------
(* From an address to an answer.                                           *)

Page(b) == [kind |-> "page", biz |-> b]
MovedTo(s) == [kind |-> "moved", to |-> s]
NotFound == [kind |-> "none"]
Unasked == [kind |-> "unasked"]                  \* no answer is kept

(* The two statements of resolveSlug: who has the address now; who had it, *)
(* and has another one now.                                                *)
Holder(s) ==
  IF \E b \in Businesses : slug[b] = s THEN Page(CHOOSE b \in Businesses : slug[b] = s) ELSE NotFound

Former(s) ==
  LET left == {h \in history : h.slug = s /\ slug[h.biz] # s}
  IN  IF left = {} THEN NotFound ELSE MovedTo(slug[(CHOOSE h \in left : TRUE).biz])

NoVisit == [step |-> "idle"]
Renders(s, v) == visit' = [visit EXCEPT ![s] = v] /\ UNCHANGED <<console, kept>>

(* The answer goes to the visitor and is kept.                             *)
Answers(s, a) ==
  /\ cache' = [cache EXCEPT ![s] = a]
  /\ old' = old \ {s}
  /\ visit' = [visit EXCEPT ![s] = NoVisit]
  /\ UNCHANGED console

(* Who has the address; a holder's home is loaded next.                    *)
Found(s, holder, answer) ==
  [step |-> "load", biz |-> holder.biz, answer |-> answer]

(* A visitor asks for an address that no fresh answer is kept of.          *)
Visit(s) ==
  /\ visit[s] = NoVisit /\ (cache[s] = Unasked \/ s \in old)
  /\ LET holder == Holder(s)
     IN  Renders(s, IF holder = NotFound THEN [step |-> "history"] ELSE Found(s, holder, holder))

(* Nobody had it at the first statement: the second one.                   *)
Look(s) ==
  /\ visit[s].step = "history"
  /\ LET former == Former(s)
     IN  IF former = NotFound THEN Answers(s, NotFound)
         ELSE Renders(s, [step |-> "again", answer |-> former])

(* An old address: where it moved to is resolved in its turn.  When nobody *)
(* has that one either, what its history says makes no difference.         *)
Again(s) ==
  /\ visit[s].step = "again"
  /\ LET holder == Holder(visit[s].answer.to)
     IN  IF holder = NotFound THEN Answers(s, NotFound)
         ELSE Renders(s, Found(s, holder, visit[s].answer))

(* loadPublicHome: the row of the business, then its products.             *)
Load(s) ==
  /\ visit[s].step = "load"
  /\ IF GateOpen(visit[s].biz) THEN Renders(s, [visit[s] EXCEPT !.step = "products"])
     ELSE Answers(s, NotFound)

Offer(s) ==
  /\ visit[s].step = "products"
  /\ Answers(s, IF OnSale(visit[s].biz) = {} THEN NotFound ELSE visit[s].answer)

Rendering(s) == Look(s) \/ Again(s) \/ Load(s) \/ Offer(s)

(* A minute has passed: the answer is kept on, for one more visitor.       *)
(* Mutant: the minute of a move never ends.                                *)
AgePages(s) ==
  /\ cache[s] # Unasked /\ s \notin old
  /\ old' = IF cache[s].kind = "moved" THEN old ELSE old \cup {s}
  /\ UNCHANGED <<console, cache, visit>>

Age(s) ==
  /\ cache[s] # Unasked /\ s \notin old
  /\ old' = old \cup {s}
  /\ UNCHANGED <<console, cache, visit>>

(* revalidatePath: the instance forgets, a CDN in front of it may not.     *)
Revalidated(S) ==
  \E R \in SUBSET (S \cap Visited) :
    /\ cache' = [s \in Visited |-> IF s \in R THEN Unasked ELSE cache[s]]
    /\ old' = old \ R

----------------------------------------------------------------------------
(* Changing the address: PATCH /api/console/business/slug.                 *)

NoCall == [step |-> "idle"]

(* The row of the business is locked by a transaction that has checked.    *)
(* Mutant: the row is read without FOR UPDATE.                             *)
UnlockedAlways(b) == TRUE

Unlocked(b) == \A c \in Callers : call[c].step = "write" => call[c].biz # b

TakenByOther(b, s) == \E h \in history : h.slug = s /\ h.biz # b
Recent(b) == {h \in history : h.biz = b /\ h.recent /\ h.slug \notin Temps}

Proceed(c, step) == call' = [call EXCEPT ![c].step = step]
Closes(c) == call' = [call EXCEPT ![c] = NoCall]

(* The path before the change is read first.                               *)
Ask(c, b, s) ==
  /\ call[c] = NoCall /\ calls < MaxCalls
  /\ s \notin Temps                                   \* slugSchema refuses b-
  /\ call' = [call EXCEPT ![c] = [step |-> "check", biz |-> b, slug |-> s, before |-> slug[b]]]
  /\ calls' = calls + 1
  /\ UNCHANGED <<slug, history, home, onSale, active, kept, visit, used, edits>>

(* changeSlug up to the limit: the row is locked, then the checks.         *)
Check(c) ==
  LET b == call[c].biz
      s == call[c].slug
      refused == \/ s \in Reserved \/ slug[b] = s
                 \/ TakenByOther(b, s)
                 \/ Cardinality(Recent(b)) >= SlugChanges
  IN  /\ call[c].step = "check"
      /\ Unlocked(b)
      /\ IF refused THEN Closes(c) ELSE Proceed(c, "write")
      /\ UNCHANGED <<slug, history, home, onSale, active, kept, visit, used, calls, edits>>

(* Mutant: the new address is not written to the history.                  *)
RecordedNowhere(b, s) == history

Recorded(b, s) ==
  IF \E h \in history : h.slug = s /\ h.biz = b THEN history
  ELSE history \cup {[slug |-> s, biz |-> b, recent |-> TRUE]}

(* The writes.  Both tables have a unique index on the address: when       *)
(* another business took it since the check, everything is rolled back.    *)
Write(c) ==
  LET b == call[c].biz
      s == call[c].slug
      clash == TakenByOther(b, s) \/ \E d \in Businesses \ {b} : slug[d] = s
  IN  /\ call[c].step = "write"
      /\ IF clash
         THEN Closes(c) /\ UNCHANGED <<slug, history, used>>
         ELSE /\ slug' = [slug EXCEPT ![b] = s]
              /\ history' = Recorded(b, s)
              /\ used' = [used EXCEPT ![b] = @ \cup {s}]
              /\ Proceed(c, "revalidate")
      /\ UNCHANGED <<home, onSale, active, kept, visit, calls, edits>>

(* The old path and the path of the address as it is now.                  *)
Revalidate(c) ==
  /\ call[c].step = "revalidate"
  /\ Revalidated({call[c].before, slug[call[c].biz]})
  /\ Closes(c)
  /\ UNCHANGED <<slug, history, home, onSale, active, visit, used, calls, edits>>

----------------------------------------------------------------------------
(* Other edits of the console and the administration, each revalidating.   *)

Edit(b) == edits < MaxEdits /\ Unlocked(b) /\ edits' = edits + 1
Shown(b) == Revalidated({slug[b]}) /\ UNCHANGED <<slug, history, call, visit, used, calls>>

SetInfo(b) ==
  /\ Edit(b) /\ home' = [home EXCEPT ![b].info = ~@]
  /\ UNCHANGED <<onSale, active>> /\ Shown(b)

(* The administration suspends or restores: nothing is revalidated.        *)
SetStatus(b) ==
  /\ Edit(b)
  /\ \E st \in HomeStatuses \ {home[b].status} : home' = [home EXCEPT ![b].status = st]
  /\ UNCHANGED <<slug, history, onSale, active, call, kept, visit, used, calls>>

ToggleProduct(p) ==
  /\ Edit(OwnerOf[p])
  /\ onSale' = IF p \in onSale THEN onSale \ {p} ELSE onSale \cup {p}
  /\ UNCHANGED <<home, active>> /\ Shown(OwnerOf[p])

ToggleResource(r) ==
  /\ Edit(OwnerOf[r])
  /\ active' = IF r \in active THEN active \ {r} ELSE active \cup {r}
  /\ UNCHANGED <<home, onSale>> /\ Shown(OwnerOf[r])

WithRow(site) == IF site = Unset THEN "published" ELSE site

(* updateSiteColorScheme: makes the row or keeps what it says.             *)
SetScheme(b) ==
  /\ Edit(b)
  /\ \E sch \in {"AUTO", "LIGHT"} \ {home[b].scheme} :
       home' = [home EXCEPT ![b].scheme = sch, ![b].site = WithRow(@)]
  /\ UNCHANGED <<onSale, active>> /\ Shown(b)

(* The row of the page says it is taken down, or published again.          *)
Publish(b) ==
  /\ Edit(b) /\ home[b].site # Unset
  /\ home' = [home EXCEPT ![b].site = IF @ = "hidden" THEN "published" ELSE "hidden"]
  /\ UNCHANGED <<slug, history, onSale, active, call, kept, visit, used, calls>>

(* Thirty days pass.                                                       *)
Month ==
  /\ edits < MaxEdits /\ edits' = edits + 1
  /\ \E h \in history : h.recent
  /\ history' = {[h EXCEPT !.recent = FALSE] : h \in history}
  /\ UNCHANGED <<slug, home, onSale, active, call, kept, visit, used, calls>>

----------------------------------------------------------------------------
SiteInit ==
  /\ slug = Temp
  /\ history = {[slug |-> Temp[b], biz |-> b, recent |-> TRUE] : b \in Businesses}
  /\ home = [b \in Businesses |-> [status |-> "APPROVED", info |-> TRUE, site |-> Unset, scheme |-> "AUTO"]]
  /\ onSale = Products /\ active = Resources
  /\ call = [c \in Callers |-> NoCall]
  /\ cache = [s \in Visited |-> Unasked] /\ old = {}
  /\ visit = [s \in Visited |-> NoVisit]
  /\ used = [b \in Businesses |-> {}]
  /\ calls = 0 /\ edits = 0

Changing(c) == Check(c) \/ Write(c) \/ Revalidate(c)

SiteNext ==
  \/ \E s \in Visited : Visit(s) \/ Rendering(s) \/ Age(s)
  \/ \E c \in Callers : Changing(c) \/ \E b \in Businesses, s \in Addresses : Ask(c, b, s)
  \/ \E b \in Businesses : SetInfo(b) \/ SetStatus(b) \/ SetScheme(b) \/ Publish(b)
  \/ \E p \in Products : ToggleProduct(p)
  \/ \E r \in Resources : ToggleResource(r)
  \/ Month

(* Visitors go on asking for every address, a render ends, a request of a  *)
(* console ends, and time passes.                                          *)
SiteSpec ==
  /\ SiteInit /\ [][SiteNext]_siteVars
  /\ \A s \in Visited : WF_siteVars(Visit(s)) /\ WF_siteVars(Rendering(s)) /\ WF_siteVars(Age(s))
  /\ \A c \in Callers : WF_siteVars(Changing(c))

----------------------------------------------------------------------------
(* What an address leads to, by the answers that are kept.                 *)
Leads(s, b) ==
  \/ cache[s] = Page(b)
  \/ cache[s].kind = "moved" /\ cache[s].to \in Visited /\ cache[cache[s].to] = Page(b)

(* Links do not die: whatever answers were kept while addresses changed,   *)
(* there and back, and however renders, changes and revalidations          *)
(* overlapped, once the console says of a business that it is live, and it *)
(* stays so, every address it ever chose leads to its page for good; and   *)
(* the page of one that stays closed is no longer given.                   *)
LinksRecover ==
  \A b \in Businesses :
    /\ <>[]Live(b) => <>[](\A s \in used[b] \cap Visited : Leads(s, b))
    /\ <>[]~Live(b) => <>[](\A s \in Visited : cache[s] # Page(b))

(* No link leads to somebody else: an answer that is kept for an address a *)
(* business once chose, whenever it was rendered and through whatever      *)
(* changes of both businesses, is its own page, or a move to an address it *)
(* chose itself, or none.                                                  *)
LinksStay ==
  \A b \in Businesses : \A s \in used[b] \cap Visited :
    /\ cache[s].kind = "page" => cache[s].biz = b
    /\ cache[s].kind = "moved" => cache[s].to \in used[b]

(* A business takes no more than SLUG_CHANGES_PER_30D new addresses in     *)
(* thirty days, its parallel requests included.                            *)
AddressesLimited == \A b \in Businesses : Cardinality(Recent(b)) <= SlugChanges
=============================================================================
