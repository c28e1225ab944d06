---------------------------- MODULE MC_Autogen ----------------------------
(***************************************************************************)
(* A source tree for autogen: the top directory, a, a/c and b.  Each      *)
(* directory's Makefile.ag is drawn from a few files written the way the  *)
(* MonetDB Makefile.ag files are, covering every branch of the parser:     *)
(* groups, bare names, continuation lines across a comment, a reference    *)
(* to a root variable, '""', a missing "=", a stray "}", conditional       *)
(* SUBDIRS with one and two branches, a malformed one, a directory that    *)
(* does not exist (z), a missing Makefile.ag (b), and SUBDIRS = "" which   *)
(* names the directory itself, and a SUBDIRS naming a twice with b between *)
(* them.                                                                   *)
(***************************************************************************)
EXTENDS Autogen

File(ls) == [present |-> TRUE, lines |-> ls]

TopPlain     == File(<< <<"SUBDIRS", "=", "a", "HAVE_X?b:z">> >>)
TopGroups    == File(<< <<"#", "generated">>,
                        <<"lib", "=", "{">>,
                        <<"NOINST">>,
                        <<"SOURCES", "=", "x.c", "\\">>,
                        <<"#">>,
                        <<"y.c">>,
                        <<"}">>,
                        <<>>,
                        <<"SUBDIRS", "=", "HAVE_X?:a", "b">> >>)
TopErrors    == File(<< <<"X", "{">>,
                        <<"SUBDIRS", "=", "a?b?c", "HAVE_X?a:b:c", "a">>,
                        <<"DIR", "=", "\"\"">> >>)
TopRedefined == File(<< <<"SUBDIRS", "=", "b">>,
                        <<"SUBDIRS", "=", "SUBDIRS", "a">> >>)
TopStray     == File(<< <<"}">> >>)
TopSelf      == File(<< <<"SUBDIRS", "=", "\"\"">> >>)
TopTwice     == File(<< <<"SUBDIRS", "=", "a", "b", "a">> >>)

MCExisting == {<<>>, <<"a">>, <<"b">>, <<"a", "c">>}

MCAg ==
    [d \in MCExisting |->
        CASE d = <<>> -> {TopPlain, TopGroups, TopErrors, TopRedefined, TopStray, TopSelf, TopTwice}
          [] d = <<"a">> -> {File(<< <<"SUBDIRS", "=", "HAVE_Y?c">> >>),
                             File(<< <<"SUBDIRS", "=", "\\">>, <<"c">> >>)}
          [] d = <<"b">> -> {Missing, File(<< <<"lib", "=", "{", "NOINST", "}">> >>)}
          [] OTHER       -> {File(<< <<"NOINST">> >>)}]

=============================================================================
