------------------------------ MODULE MCCohorts ------------------------------
(***************************************************************************)
(* A small instance of Decisions, over Cohorts.                            *)
(***************************************************************************)
EXTENDS Decisions

Report(id, app, groups, event, cohort, past) ==
    [id |-> id, app |-> app, daily |-> TRUE, groups |-> groups, event |-> event,
     cohort |-> cohort, past |-> past]

\* A report with every column; the same one before the advertising column was
\* added; and one with totals alone, of every app, that reaches back three days.
MCReports ==
    {Report("own", "this", {"campaign", "country"}, Components, RevenueTypes, 9),
     Report("own", "this", {"campaign", "country"}, Components, {"iap"}, 9),
     Report("all", "all", {"campaign"}, {"total"}, {"total"}, 3)}

\* A target return, and a CPI ceiling in the app's own currency.
MCBodies ==
    {[roas |-> 1, cpi |-> 0, currency |-> None], [roas |-> 0, cpi |-> 1, currency |-> None]}

Campaign(spend, installs, revenue) ==
    [operational |-> TRUE, ambiguous |-> FALSE,
     spend |-> spend, installs |-> installs, revenue |-> revenue]

Steady == <<1, 1, 1, 1>>

Account(campaigns) ==
    [missing |-> None, marketing |-> "fresh", spendIn |-> {"USD"}, revenueIn |-> {"USD"},
     campaigns |-> campaigns]

\* One campaign spends every day; another for a day, with installs on others too
\* and a revenue that falls with nothing to explain it; and an ambiguous one
\* spends little.
MCCircumstances ==
    {Account([this |-> Campaign(<<1, 1, 2, 1>>, <<2, 2, 4, 2>>, Steady),
              other |-> Campaign(<<0, 2, 0, 0>>, <<1, 1, 0, 0>>, <<3, 3, 0, 3>>),
              unclear |-> [Campaign(<<0, 0, 0, 1>>, Steady, Steady)
                               EXCEPT !.operational = FALSE, !.ambiguous = TRUE]])}

=============================================================================
