------------------------------ MODULE Browser ------------------------------
(***************************************************************************)
(* The page a session is on, and how its navigations are let through or    *)
(* refused (src/src/cua/surfaces/playwright_cdp/driver.py).  The page runs *)
(* by itself: its content changes and it starts navigations whether or not *)
(* anybody acts on it.                                                     *)
(*                                                                         *)
(* One frame is modelled, and a URL by its host.  A control is labelled    *)
(* with the tier its name suggests (the lexicon of the policy), or is Gone.*)
(***************************************************************************)
EXTENDS Chokepoint, FiniteSets

CONSTANTS Hosts,
          Allowed,              \* the deployment's allowlist
          Home,                 \* where the session starts
          Controls, NoControl, Gone, NoHost,
          Views,                \* what a page may show
          MaxChanges            \* bound: changes the page makes by itself

Labels == Tiers \cup {Gone}

(* What a page shows: its controls, the one under the point an operator    *)
(* clicks at, and the one that has the focus.                              *)
Content == {c \in [labels : [Controls -> Labels],
                   under : Controls \cup {NoControl}, focus : Controls \cup {NoControl}] :
              \A i \in {c.under, c.focus} \ {NoControl} : c.labels[i] # Gone}

ASSUME BrowserAssumption ==
  /\ Home \in Allowed /\ Allowed \subseteq Hosts
  /\ NoControl \notin Controls /\ Gone \notin Tiers /\ NoHost \notin Hosts
  /\ Views \subseteq Content /\ Views # {}
  /\ MaxChanges \in Nat

VARIABLES page,     \* the host and what it shows
          loading,  \* the navigation under way
          landed,   \* _landed: where the frame went since the dispatch began
          refused,  \* _refused: what was stopped and is not yet reported
          changes

browserVars == <<page, loading, landed, refused, changes>>

NoLoading == [to |-> NoHost, stage |-> "none"]

(* Routed: _route is deciding (_vetting).  Redirected: the browser is about *)
(* to follow a redirect it was handed.  Fulfilled: about to commit.        *)
Loading == [to : Hosts, stage : {"routed", "redirected", "fulfilled"}] \cup {NoLoading}

BrowserInit ==
  /\ page \in [host : {Home}, content : Views]
  /\ loading = NoLoading
  /\ landed = {}
  /\ refused = {}
  /\ changes = 0

(* The guard the dispatcher installs, for every navigation of the page.    *)
Guard(host) == host \in Allowed

To(host) == [to |-> host, stage |-> "routed"]

-----------------------------------------------------------------------------
(* _route.                                                                 *)

Refuse(host) ==
  /\ refused' = refused \cup {host}
  /\ loading' = NoLoading

RouteRefuses ==
  /\ loading.stage = "routed"
  /\ ~Guard(loading.to)
  /\ Refuse(loading.to)
  /\ UNCHANGED <<page, landed, changes>>

(* A navigation that could not be vetted has not been permitted.           *)
FetchFails ==
  /\ loading.stage = "routed"
  /\ Guard(loading.to)
  /\ Refuse(loading.to)
  /\ UNCHANGED <<page, landed, changes>>

(* Slip: the fetch follows redirects by itself.                            *)
FetchRedirectsFollowed(location) ==
  /\ loading.stage = "routed"
  /\ Guard(loading.to)
  /\ loading' = [to |-> location, stage |-> "fulfilled"]
  /\ UNCHANGED <<page, landed, refused, changes>>

FetchRedirects(location) ==
  /\ loading.stage = "routed"
  /\ Guard(loading.to)
  /\ \/ ~Guard(location) /\ Refuse(location)
     \/ /\ Guard(location)
        /\ loading' = [to |-> location, stage |-> "redirected"]
        /\ UNCHANGED refused
  /\ UNCHANGED <<page, landed, changes>>

FetchAnswers ==
  /\ loading.stage = "routed"
  /\ Guard(loading.to)
  /\ loading' = [loading EXCEPT !.stage = "fulfilled"]
  /\ UNCHANGED <<page, landed, refused, changes>>

(* A fulfilled redirect is followed as a new request.                      *)
Follows ==
  /\ loading.stage = "redirected"
  /\ loading' = To(loading.to)
  /\ UNCHANGED <<page, landed, refused, changes>>

Commits(content) ==
  /\ loading.stage = "fulfilled"
  /\ page' = [host |-> loading.to, content |-> content]
  /\ landed' = landed \cup {loading.to}
  /\ loading' = NoLoading
  /\ UNCHANGED <<refused, changes>>

Routes ==
  \/ RouteRefuses
  \/ FetchFails
  \/ \E location \in Hosts : FetchRedirects(location)
  \/ FetchAnswers
  \/ Follows

-----------------------------------------------------------------------------
(* What the page does by itself.                                           *)

PageChanges(content) ==
  /\ changes < MaxChanges
  /\ changes' = changes + 1
  /\ page' = [page EXCEPT !.content = content]
  /\ UNCHANGED <<loading, landed, refused>>

PageNavigates(host) ==
  /\ changes < MaxChanges
  /\ changes' = changes + 1
  /\ loading = NoLoading
  /\ loading' = To(host)
  /\ UNCHANGED <<page, landed, refused>>
=============================================================================
