SPECIFICATION Spec
CONSTANTS
  Worlds <- MCZeroWorlds
  Noise <- MCNoise
  PowerUp <- MCPowerUp
  ERROR_CODE = ERROR_CODE
  NO_OF_SAMPLES = 2
  Retries = 1
  MaxPlug = 1
  MaxFaults = 2
  Stamps = {1}
INVARIANTS SensorsAsDocumented
