\* 50 is the code of a digit, so msgMQTT reads on behind it; 70 of a letter.
\* A read may end within the request, within the answer or within a sentence.
CONSTANTS
  None = None
  Values = {50, 70}
  CarVin <- MCCarVin
  Fixes <- MCFixes
  Clocks <- MCClocks
  Cuts = {2, 12, 30}
  MaxTorn = 1
  Attempts = {1, 1000}
  ClockDigits = {10}
SPECIFICATION Spec
INVARIANTS TypeOK
PROPERTIES ReportIsMeasured PositionIsGiven VinIsCars TextFits
