----------------------------- MODULE MCSeedLoad -----------------------------
(* Two images whose workbooks differ in a score, a segment and a threshold;  *)
(* the newer one lists a product twice and has no Appendix B.  A third one   *)
(* has a code that is too long, of a fourth the template lacks its sheet, of *)
(* a fifth a migration fails.                                                *)
EXTENDS SeedLoad, TLC

CONSTANTS c1, c2

TheYears == {"2026", "2027"}
Numbers  == {"0.3", "0.4"}
TheImages == {"old", "new", "long", "stuck", "behind"}
MigratingImages == TheImages \ {"behind"}
LongCells == {"AAA"}
TheVats == {"v"}

Products(rows) == <<[title |-> "steel", headers |-> <<"segment", "etimad">>, rows |-> rows]>>

TheBooks ==
  [behind |-> [found |-> TRUE, sectors |-> Missing, mandatory |-> Missing,
               thresholds |-> Missing, whitelist |-> <<[vat |-> "v", score |-> "0.3"]>>],
   old |-> [found |-> TRUE,
            sectors    |-> <<<<"", "Sector", "Score">>, <<"", "goods", "0.3">>>>,
            mandatory  |-> Products(<<<<"s1", "A">>, <<"", "B">>>>),
            thresholds |-> <<<<<<"etimad", "2026">>, <<"A", "0.3">>, <<"B", "">>>>>>,
            whitelist  |-> <<[vat |-> "v", score |-> "0.3"]>>],
   new |-> [found |-> TRUE,
            sectors    |-> Missing,
            mandatory  |-> Products(<<<<"s2", "A">>, <<"s3", "A">>>>),
            thresholds |-> <<<<<<"etimad", "2026">>, <<"A", "0.4">>,
                               <<"2027", "etimad">>, <<"0.3", "A">>>>>>,
            whitelist  |-> <<[vat |-> "v", score |-> "0.3"]>>],
   long |-> [found |-> TRUE,
             sectors    |-> Missing,
             mandatory  |-> Products(<<<<"s2", "A">>, <<"s3", "AAA">>>>),
             thresholds |-> Missing,
             whitelist  |-> <<[vat |-> "v", score |-> "0.3"]>>],
   stuck |-> [found |-> TRUE,
              sectors    |-> NoSheet,
              mandatory  |-> Missing,
              thresholds |-> Missing,
              whitelist  |-> <<[vat |-> "v", score |-> "0.3"]>>]]
==============================================================================
