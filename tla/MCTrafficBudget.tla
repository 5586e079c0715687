--------------------------- MODULE MCTrafficBudget ---------------------------
\* December to June of a year that is not a leap year, around short months.
EXTENDS TrafficBudget

MCMonths == <<31, 31, 28, 31, 30, 31, 30>>
=============================================================================
