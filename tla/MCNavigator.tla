---------------------------- MODULE MCNavigator ----------------------------
(***************************************************************************)
(* A small instance of Navigator for TLC: the page of one Site, a section   *)
(* of it and a range that the server redirects to it, another Site's page   *)
(* and the login page.                                                      *)
(***************************************************************************)
EXTENDS Navigator, TLC

URL(path, query, fragment) == [path |-> path, query |-> query, fragment |-> fragment]
MCSite == URL("site", "", "")
MCSection == URL("site", "", "map")
MCRange == URL("site", "range", "")
MCOther == URL("other", "", "")
MCLogin == URL("login", "", "")
MCPosted == URL("posted", "", "")
MCURLs == {MCSite, MCSection, MCRange, MCOther, MCLogin}
MCRedirect == [p \in Pages |-> IF p = MCRange THEN MCSite ELSE p]

=============================================================================
