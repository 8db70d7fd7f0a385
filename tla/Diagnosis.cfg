SPECIFICATION Spec
CONSTANTS
  NaN = NaN
  Currents <- MCCurrents
  Strokes <- MCStrokes
  Peaks <- MCPeaks
  Positions <- MCPositions
  ProcessErrors <- MCProcessErrors
  Stagnations <- MCStagnations
  Residuals <- MCResiduals
  Similarities <- MCSimilarities
  Voltages <- MCVoltages
INVARIANTS
  SlowRuleUnreachable
PROPERTIES
  WearNeverClears
  WearNeverImproves
