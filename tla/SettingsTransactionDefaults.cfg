SPECIFICATION SettingsSpec
CONSTANTS
  Scalars <- MCScalars
  Values = {0, 1}
  StartValue = 1
  DefaultValue = 0
  NoValue = NoValue
  Connections = {1, 2, 3}
  MaxEvents = 1
  Disturbances <- MCLoss
INVARIANTS
  DefaultsStaySelected
