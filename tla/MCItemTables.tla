---------------------------- MODULE MCItemTables ----------------------------
(* A small site for ItemTables: a page with arguments, one search engine,  *)
(* a robot, and a proxy log. Argument "c" is excluded, "a=1" is ignored.   *)
EXTENDS ItemTables

MCNameOrder == <<"", "a", "b", "c">>
MCTextOrder == <<"a=", "a=1", "a=2", "b=", "b=1", "c=", "c=1">>

MCPage == {"/page", "/"}
MCMangled(agent) == IF agent = "moz 2" THEN "moz" ELSE agent

A1 == [name |-> "a", value |-> "1", text |-> "a=1"]
A2 == [name |-> "a", value |-> "2", text |-> "a=2"]
B1 == [name |-> "b", value |-> "1", text |-> "b=1"]
C1 == [name |-> "c", value |-> "1", text |-> "c=1"]

Hit == [host |-> "h1", url |-> "/page", args |-> <<>>, refer |-> "", query |-> <<>>,
        agent |-> "moz", user |-> "", method |-> "GET", status |-> 200]

Asked(text) == <<[name |-> "q", value |-> text, text |-> "q"]>>

MCRecords ==
  {[Hit EXCEPT !.args = <<A2, B1>>, !.user = "ann"],
   [Hit EXCEPT !.args = <<B1, C1, A2>>, !.agent = "moz 2"],
   [Hit EXCEPT !.args = <<A2, B1, A1>>],
   [Hit EXCEPT !.args = <<B1, A1>>],
   [Hit EXCEPT !.host = "h2", !.args = <<A1, B1>>, !.agent = "bot"],
   [Hit EXCEPT !.url = "/index", !.refer = "engine", !.query = Asked("shoes"), !.agent = "bot"],
   [Hit EXCEPT !.refer = "engine", !.query = Asked("shoes"), !.status = 206, !.user = "bob"],
   [Hit EXCEPT !.host = "h2", !.refer = "engine", !.query = Asked("http://x")],
   [Hit EXCEPT !.url = "/gone", !.refer = "site", !.status = 404, !.user = "ann"]}

NoList == [n \in {} |-> ""]

Web ==
  [type |-> "web", reports |-> {"err", "ref", "agent", "search"},
   sort_srch_args |-> TRUE, incl_srch_args |-> {}, excl_srch_args |-> {"c"},
   ignored_urls |-> <<[names |-> {"/page"}, name |-> "a", key |-> "a=", value |-> "1"]>>,
   search_list |-> <<[names |-> {"engine"}, name |-> "q", qualifier |-> "All"],
                     [names |-> {"engine"}, name |-> "as_q", qualifier |-> "Any"]>>,
   foreign |-> {"http://x"}, spam_refs |-> {}, ignore_referrer_partial |-> FALSE,
   index_alias |-> ("/index" :> "/"), robots |-> ("bot" :> "Bots"),
   ignore_robots |-> FALSE, group_robots |-> TRUE,
   include_hosts |-> {"h2"}, include_urls |-> {}, include_refs |-> {},
   include_agents |-> {}, include_users |-> {},
   ignored_hosts |-> {}, ignored_agents |-> {}, ignored_refs |-> {}, ignored_users |-> {},
   group_urls |-> ("/page" :> "Pages" @@ "/gone" :> "Pages"), url_domains |-> NoList,
   group_refs |-> ("engine" :> "Engines"), group_agents |-> ("moz" :> "Mozilla"),
   group_users |-> ("ann" :> "People" @@ "bob" :> "People"),
   page_entry |-> FALSE]

(* No sorting, other arguments kept, no robots, pages only as entries.     *)
Quiet ==
  [Web EXCEPT !.sort_srch_args = FALSE, !.incl_srch_args = {"a"}, !.excl_srch_args = {"*"},
              !.ignore_robots = TRUE, !.include_hosts = {}, !.page_entry = TRUE,
              !.ignore_referrer_partial = TRUE, !.ignored_refs = {"site"},
              !.spam_refs = {"spam"}]

Squid ==
  [Web EXCEPT !.type = "squid", !.group_urls = NoList,
              !.url_domains = ("/page" :> "site" @@ "/gone" :> "other")]

MCConfigs == {Web, Quiet, Squid}
=============================================================================
