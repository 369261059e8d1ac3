--------------------------- MODULE MCAcquisition ----------------------------
(* Two commits for TLC: in the first templates/one is a template with a    *)
(* script in a directory of its own, templates/two is not a template, and  *)
(* docs has too many bytes; in the second templates/one lost its script,   *)
(* the template.json of templates/two is a symbolic link, and the root is a *)
(* template nested too deeply.                                             *)
(* The link may mean "feature" or "feature/templates".                     *)
EXTENDS Acquisition

E(n, k, i) == [name |-> n, kind |-> k, id |-> i]
MCEntries ==
  [root1  |-> <<E("docs", "tree", "docs"), E("readme", "blob", "big"), E("templates", "tree", "list1")>>,
   root2  |-> <<E("template", "blob", "json"), E("templates", "tree", "list2")>>,
   docs   |-> <<E("guide", "blob", "script"), E("readme", "blob", "big")>>,
   list1  |-> <<E("one", "tree", "full"), E("two", "tree", "bare")>>,
   list2  |-> <<E("one", "tree", "plain"), E("two", "tree", "linked")>>,
   full   |-> <<E("bin", "tree", "bin"), E("template", "blob", "json")>>,
   bin    |-> <<E("run", "blob", "script")>>,
   bare   |-> <<E("deep", "tree", "bare2")>>,
   bare2  |-> <<E("deep", "tree", "bare3")>>,
   bare3  |-> <<E("run", "blob", "script")>>,
   plain  |-> <<E("legacy", "blob", "json")>>,
   linked |-> <<E("template", "link", "target"), E("tools", "module", "other")>>]
MCSize == [json |-> 1, script |-> 2, big |-> 4]
MCCommit == {"c1", "c2"}
MCRootTree == [c1 |-> "root1", c2 |-> "root2"]
MCRef == {<<"main">>, <<"feature">>, <<"feature", "templates">>}
MCDefault == <<"main">>
MCEntryNames == {"template", "legacy"}
MCInput ==
  {[tail |-> <<>>, ref |-> <<>>, path |-> <<>>],
   [tail |-> <<>>, ref |-> <<"feature">>, path |-> <<"templates", "two">>],
   [tail |-> <<>>, ref |-> <<>>, path |-> <<"docs">>],
   [tail |-> <<"feature", "templates">>, ref |-> <<>>, path |-> <<>>],
   [tail |-> <<"feature", "templates", "one", "template">>, ref |-> <<>>, path |-> <<>>],
   [tail |-> <<"feature", "templates", "one">>, ref |-> <<>>, path |-> <<"template">>],
   [tail |-> <<"feature", "templates", "one">>, ref |-> <<"main">>, path |-> <<>>]}
=============================================================================
