SPECIFICATION NegotiationSpec
CONSTANTS
    Encodings <- MCEncodings
    EncodingTokens = {"br", "gzip", "*"}
    Formats <- MCFormats
    FormatOf <- MCFormatOf
    MaxEntries = 2
    Top = 2
    SourceFormat = "jpeg"
    ImageKeys <- MCImageKeys
    Widths = {0, 3}
    RequestFormats = {Nothing, "webp"}
    Nothing = Nothing
    Unescaped <- MCUnescaped
    Dotted = {"..", "v1.2", "app.js", ".env", "index.html"}
    Hidden = {".env"}
    Mount <- MCMount
    Entry <- MCEntry
    FallbackTarget <- MCEntry
    RequestPaths <- MCRequestPaths
    AssetPaths <- MCAssetPaths
INVARIANTS PreparedAgrees BestAcceptedVariant
CHECK_DEADLOCK FALSE
