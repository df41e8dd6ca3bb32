SPECIFICATION SensorSpec
CONSTANTS
    NoClass = NoClass
    NoAccess = NoAccess
INVARIANT BinDataIsValues
