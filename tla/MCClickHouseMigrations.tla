---- MODULE MCClickHouseMigrations ----
EXTENDS ClickHouseMigrations
CONSTANTS m1, m2
MCMigrators == {m1, m2}
MCSymmetry == Permutations(MCMigrators)
MCCommands == [kind : {"upgrade"}, target : {0, 2, 3}]
                \cup [kind : {"downgrade"}, target : {Base, 1, 2}]
MCTokens == {Separator, Token("blank", <<" ">>), Token("blank", <<"\n">>),
  Token("code", <<"word">>), Token("code", <<"-">>), Token("code", <<"/">>), Token("code", <<"*">>),
  Token("literal", <<"'", ";", "'">>), Token("literal", <<"'", "-", "-", "'">>),
  Token("literal", <<"'", "\\", "'", ";", "'">>), Token("literal", <<"\"", "'", "\"">>),
  Token("comment", <<"-", "-", ";", "'", "\n">>), Token("comment", <<"/", "*", ";", "'", "*", "/">>),
  Token("comment", <<"/", "*", "*", "/">>)}
MCScripts == UNION {[1..n -> MCTokens] : n \in 0..3}
====
