------------------------------- MODULE Browsers -------------------------------
(***************************************************************************)
(* The pages, acts and answers of both applications, and for each answer   *)
(* that some act refreshes, the pages and acts that have to do with it.    *)
(***************************************************************************)
EXTENDS AdminPages

Apps == {"web", "admin"}

PagesOf == [web |-> WebPagesAll, admin |-> AdminPagesAll]

ActsOf == [web |-> WebActs, admin |-> AdminActs]

SourcesOf == [web |-> WebSources, admin |-> AdminSources]

RefreshesOf(act) == UNION {act.refreshes[i] : i \in DOMAIN act.refreshes}

Changes(a, n, k) == ActsOf[a][n].writes \cap SourcesOf[a][k] # {}

(* TLC computes the values of f @@ <<>> once, those of f at every use.      *)
Table(f) == f @@ <<>>

(* The answers looked at: those some act refreshes, and the menu's.         *)
Watchable ==
    {w \in UNION {{a} \X DOMAIN SourcesOf[a] : a \in Apps} :
        \/ w = <<"web", "auth-me">>
        \/ \E n \in DOMAIN ActsOf[w[1]] : w[2] \in RefreshesOf(ActsOf[w[1]][n])}

ActsOn ==
    Table([w \in Watchable |->
              {n \in DOMAIN ActsOf[w[1]] :
                  Changes(w[1], n, w[2]) \/ w[2] \in RefreshesOf(ActsOf[w[1]][n])}])

OnPage(act, a, p) == act.page \in {p, PagesOf[a][p].part}

PagesOn ==
    Table([w \in Watchable |->
              IF w[2] = "auth-me" THEN {"login", "elsewhere"}
              ELSE {"elsewhere"} \cup
                   {p \in DOMAIN PagesOf[w[1]] :
                       \/ w[2] \in PagesOf[w[1]][p].now \cup PagesOf[w[1]][p].later
                       \/ \E n \in ActsOn[w] : OnPage(ActsOf[w[1]][n], w[1], p)}])
=============================================================================
