SPECIFICATION Spec
CONSTANTS
  MaxBoots = 2
  MaxCount = 1
  Width <- MCWidth
PROPERTIES StatsPeriodPerBoot
